---- MODULE Spec2Model ----
(***************************************************************************)
(* Model of elemac.py: the memory-read protocol of ElemacDevice            *)
(* (send_command / read_ram) and the alert deduplication and dispatch of   *)
(* ElemacController (check_dedup_suppression, save_dedup_suppression_state,*)
(* send_alerts, send_email_alert, send_sms_alert).                         *)
(*                                                                         *)
(* Text (str) and byte strings are sequences of one-character strings.     *)
(***************************************************************************)
EXTENDS Integers, Sequences, FiniteSets, TLC

VARIABLES
    now,      \* the wall clock, what datetime.datetime.now() returns
    files,    \* /var/elemac/last-alert-<channel>: file key -> [exists, text]
    config,   \* self.config, loaded once from /etc/elemac
    call,     \* what the last send_alerts call did
    ram,      \* the last read_ram call: its arguments, the device's answer, its outcome
    written,  \* the bytes of the last transport write
    trace,    \* every transport operation issued by this process, in order
    status,   \* "running", or "crashed" once an exception reached the top level
    mem,      \* the controller's RAM: address -> byte
    fault,    \* what the transport will do to this process: which round trip fails, and how
    requests, \* the read_ram calls of this process, in order: [address, size, cmd]
    measurements,            \* ElemacDevice.measurements
    available_measurements,  \* ElemacDevice.available_measurements
    alerts,   \* the send_alerts calls of check_alarms, in order
    chart,    \* the lines appended to the historic data file
    invoked,  \* the command main() ran, "" before it
    probe     \* what the last direct check_dedup_suppression call saw and returned

vars == <<now, files, config, call, ram, written, trace, status, mem, fault, requests, measurements, available_measurements, alerts, chart, invoked, probe>>
alertVars == <<now, files, config, call>>
deviceVars == <<ram, written, trace, status>>
pollVars == <<mem, fault, requests, measurements, available_measurements, alerts, chart, invoked>>

---------------------------------------------------------------------------
(* Bounds of the model.                                                    *)

\* The clock ranges over the hours 0..MaxHour of one day.
MaxHour == 2
\* alert_dedup_suppression_hours ranges over 1..MaxWindow when configured.
MaxWindow == 2
\* Addresses passed to read_ram range over 0..MaxAddr.
MaxAddr == 4100
\* A device response holds at most MaxRespLen bytes.
MaxRespLen == 4
\* A process issues at most MaxCalls read_ram calls.
MaxCalls == 3
\* check_dedup_suppression is called up to MaxProbes times in a row.
MaxProbes == 3

---------------------------------------------------------------------------
(* Python text helpers.                                                    *)

DIGITS == <<"0", "1", "2", "3", "4", "5", "6", "7", "8", "9">>

HEXDIGITS == <<"0", "1", "2", "3", "4", "5", "6", "7", "8", "9", "a", "b", "c", "d", "e", "f">>

RECURSIVE Dec(_)
\* str(n) / '%d' % n for n >= 0.
Dec(n) == IF n < 10 THEN <<DIGITS[n + 1]>> ELSE Dec(n \div 10) \o <<DIGITS[(n % 10) + 1]>>

RECURSIVE Hex(_)
\* format(n, 'x') for n >= 0: lowercase hexadecimal, no prefix.
Hex(n) == IF n < 16 THEN <<HEXDIGITS[n + 1]>> ELSE Hex(n \div 16) \o <<HEXDIGITS[(n % 16) + 1]>>

RECURSIVE LeftPad(_, _, _)
\* Right-aligns s in a field at least w wide, filling with `fill`; never truncates.
LeftPad(s, w, fill) == IF Len(s) >= w THEN s ELSE LeftPad(<<fill>> \o s, w, fill)

\* The decimal digits outside ASCII (category Nd of the Unicode database the
\* interpreter carries), a character being written <U+XXXX>: each row is
\* one script's digits zero to nine.
UNICODE_DIGITS ==
    <<
     <<"<U+0660>", "<U+0661>", "<U+0662>", "<U+0663>", "<U+0664>", "<U+0665>", "<U+0666>", "<U+0667>", "<U+0668>", "<U+0669>">>,
     <<"<U+06F0>", "<U+06F1>", "<U+06F2>", "<U+06F3>", "<U+06F4>", "<U+06F5>", "<U+06F6>", "<U+06F7>", "<U+06F8>", "<U+06F9>">>,
     <<"<U+07C0>", "<U+07C1>", "<U+07C2>", "<U+07C3>", "<U+07C4>", "<U+07C5>", "<U+07C6>", "<U+07C7>", "<U+07C8>", "<U+07C9>">>,
     <<"<U+0966>", "<U+0967>", "<U+0968>", "<U+0969>", "<U+096A>", "<U+096B>", "<U+096C>", "<U+096D>", "<U+096E>", "<U+096F>">>,
     <<"<U+09E6>", "<U+09E7>", "<U+09E8>", "<U+09E9>", "<U+09EA>", "<U+09EB>", "<U+09EC>", "<U+09ED>", "<U+09EE>", "<U+09EF>">>,
     <<"<U+0A66>", "<U+0A67>", "<U+0A68>", "<U+0A69>", "<U+0A6A>", "<U+0A6B>", "<U+0A6C>", "<U+0A6D>", "<U+0A6E>", "<U+0A6F>">>,
     <<"<U+0AE6>", "<U+0AE7>", "<U+0AE8>", "<U+0AE9>", "<U+0AEA>", "<U+0AEB>", "<U+0AEC>", "<U+0AED>", "<U+0AEE>", "<U+0AEF>">>,
     <<"<U+0B66>", "<U+0B67>", "<U+0B68>", "<U+0B69>", "<U+0B6A>", "<U+0B6B>", "<U+0B6C>", "<U+0B6D>", "<U+0B6E>", "<U+0B6F>">>,
     <<"<U+0BE6>", "<U+0BE7>", "<U+0BE8>", "<U+0BE9>", "<U+0BEA>", "<U+0BEB>", "<U+0BEC>", "<U+0BED>", "<U+0BEE>", "<U+0BEF>">>,
     <<"<U+0C66>", "<U+0C67>", "<U+0C68>", "<U+0C69>", "<U+0C6A>", "<U+0C6B>", "<U+0C6C>", "<U+0C6D>", "<U+0C6E>", "<U+0C6F>">>,
     <<"<U+0CE6>", "<U+0CE7>", "<U+0CE8>", "<U+0CE9>", "<U+0CEA>", "<U+0CEB>", "<U+0CEC>", "<U+0CED>", "<U+0CEE>", "<U+0CEF>">>,
     <<"<U+0D66>", "<U+0D67>", "<U+0D68>", "<U+0D69>", "<U+0D6A>", "<U+0D6B>", "<U+0D6C>", "<U+0D6D>", "<U+0D6E>", "<U+0D6F>">>,
     <<"<U+0DE6>", "<U+0DE7>", "<U+0DE8>", "<U+0DE9>", "<U+0DEA>", "<U+0DEB>", "<U+0DEC>", "<U+0DED>", "<U+0DEE>", "<U+0DEF>">>,
     <<"<U+0E50>", "<U+0E51>", "<U+0E52>", "<U+0E53>", "<U+0E54>", "<U+0E55>", "<U+0E56>", "<U+0E57>", "<U+0E58>", "<U+0E59>">>,
     <<"<U+0ED0>", "<U+0ED1>", "<U+0ED2>", "<U+0ED3>", "<U+0ED4>", "<U+0ED5>", "<U+0ED6>", "<U+0ED7>", "<U+0ED8>", "<U+0ED9>">>,
     <<"<U+0F20>", "<U+0F21>", "<U+0F22>", "<U+0F23>", "<U+0F24>", "<U+0F25>", "<U+0F26>", "<U+0F27>", "<U+0F28>", "<U+0F29>">>,
     <<"<U+1040>", "<U+1041>", "<U+1042>", "<U+1043>", "<U+1044>", "<U+1045>", "<U+1046>", "<U+1047>", "<U+1048>", "<U+1049>">>,
     <<"<U+1090>", "<U+1091>", "<U+1092>", "<U+1093>", "<U+1094>", "<U+1095>", "<U+1096>", "<U+1097>", "<U+1098>", "<U+1099>">>,
     <<"<U+17E0>", "<U+17E1>", "<U+17E2>", "<U+17E3>", "<U+17E4>", "<U+17E5>", "<U+17E6>", "<U+17E7>", "<U+17E8>", "<U+17E9>">>,
     <<"<U+1810>", "<U+1811>", "<U+1812>", "<U+1813>", "<U+1814>", "<U+1815>", "<U+1816>", "<U+1817>", "<U+1818>", "<U+1819>">>,
     <<"<U+1946>", "<U+1947>", "<U+1948>", "<U+1949>", "<U+194A>", "<U+194B>", "<U+194C>", "<U+194D>", "<U+194E>", "<U+194F>">>,
     <<"<U+19D0>", "<U+19D1>", "<U+19D2>", "<U+19D3>", "<U+19D4>", "<U+19D5>", "<U+19D6>", "<U+19D7>", "<U+19D8>", "<U+19D9>">>,
     <<"<U+1A80>", "<U+1A81>", "<U+1A82>", "<U+1A83>", "<U+1A84>", "<U+1A85>", "<U+1A86>", "<U+1A87>", "<U+1A88>", "<U+1A89>">>,
     <<"<U+1A90>", "<U+1A91>", "<U+1A92>", "<U+1A93>", "<U+1A94>", "<U+1A95>", "<U+1A96>", "<U+1A97>", "<U+1A98>", "<U+1A99>">>,
     <<"<U+1B50>", "<U+1B51>", "<U+1B52>", "<U+1B53>", "<U+1B54>", "<U+1B55>", "<U+1B56>", "<U+1B57>", "<U+1B58>", "<U+1B59>">>,
     <<"<U+1BB0>", "<U+1BB1>", "<U+1BB2>", "<U+1BB3>", "<U+1BB4>", "<U+1BB5>", "<U+1BB6>", "<U+1BB7>", "<U+1BB8>", "<U+1BB9>">>,
     <<"<U+1C40>", "<U+1C41>", "<U+1C42>", "<U+1C43>", "<U+1C44>", "<U+1C45>", "<U+1C46>", "<U+1C47>", "<U+1C48>", "<U+1C49>">>,
     <<"<U+1C50>", "<U+1C51>", "<U+1C52>", "<U+1C53>", "<U+1C54>", "<U+1C55>", "<U+1C56>", "<U+1C57>", "<U+1C58>", "<U+1C59>">>,
     <<"<U+A620>", "<U+A621>", "<U+A622>", "<U+A623>", "<U+A624>", "<U+A625>", "<U+A626>", "<U+A627>", "<U+A628>", "<U+A629>">>,
     <<"<U+A8D0>", "<U+A8D1>", "<U+A8D2>", "<U+A8D3>", "<U+A8D4>", "<U+A8D5>", "<U+A8D6>", "<U+A8D7>", "<U+A8D8>", "<U+A8D9>">>,
     <<"<U+A900>", "<U+A901>", "<U+A902>", "<U+A903>", "<U+A904>", "<U+A905>", "<U+A906>", "<U+A907>", "<U+A908>", "<U+A909>">>,
     <<"<U+A9D0>", "<U+A9D1>", "<U+A9D2>", "<U+A9D3>", "<U+A9D4>", "<U+A9D5>", "<U+A9D6>", "<U+A9D7>", "<U+A9D8>", "<U+A9D9>">>,
     <<"<U+A9F0>", "<U+A9F1>", "<U+A9F2>", "<U+A9F3>", "<U+A9F4>", "<U+A9F5>", "<U+A9F6>", "<U+A9F7>", "<U+A9F8>", "<U+A9F9>">>,
     <<"<U+AA50>", "<U+AA51>", "<U+AA52>", "<U+AA53>", "<U+AA54>", "<U+AA55>", "<U+AA56>", "<U+AA57>", "<U+AA58>", "<U+AA59>">>,
     <<"<U+ABF0>", "<U+ABF1>", "<U+ABF2>", "<U+ABF3>", "<U+ABF4>", "<U+ABF5>", "<U+ABF6>", "<U+ABF7>", "<U+ABF8>", "<U+ABF9>">>,
     <<"<U+FF10>", "<U+FF11>", "<U+FF12>", "<U+FF13>", "<U+FF14>", "<U+FF15>", "<U+FF16>", "<U+FF17>", "<U+FF18>", "<U+FF19>">>,
     <<"<U+104A0>", "<U+104A1>", "<U+104A2>", "<U+104A3>", "<U+104A4>", "<U+104A5>", "<U+104A6>", "<U+104A7>", "<U+104A8>", "<U+104A9>">>,
     <<"<U+10D30>", "<U+10D31>", "<U+10D32>", "<U+10D33>", "<U+10D34>", "<U+10D35>", "<U+10D36>", "<U+10D37>", "<U+10D38>", "<U+10D39>">>,
     <<"<U+11066>", "<U+11067>", "<U+11068>", "<U+11069>", "<U+1106A>", "<U+1106B>", "<U+1106C>", "<U+1106D>", "<U+1106E>", "<U+1106F>">>,
     <<"<U+110F0>", "<U+110F1>", "<U+110F2>", "<U+110F3>", "<U+110F4>", "<U+110F5>", "<U+110F6>", "<U+110F7>", "<U+110F8>", "<U+110F9>">>,
     <<"<U+11136>", "<U+11137>", "<U+11138>", "<U+11139>", "<U+1113A>", "<U+1113B>", "<U+1113C>", "<U+1113D>", "<U+1113E>", "<U+1113F>">>,
     <<"<U+111D0>", "<U+111D1>", "<U+111D2>", "<U+111D3>", "<U+111D4>", "<U+111D5>", "<U+111D6>", "<U+111D7>", "<U+111D8>", "<U+111D9>">>,
     <<"<U+112F0>", "<U+112F1>", "<U+112F2>", "<U+112F3>", "<U+112F4>", "<U+112F5>", "<U+112F6>", "<U+112F7>", "<U+112F8>", "<U+112F9>">>,
     <<"<U+11450>", "<U+11451>", "<U+11452>", "<U+11453>", "<U+11454>", "<U+11455>", "<U+11456>", "<U+11457>", "<U+11458>", "<U+11459>">>,
     <<"<U+114D0>", "<U+114D1>", "<U+114D2>", "<U+114D3>", "<U+114D4>", "<U+114D5>", "<U+114D6>", "<U+114D7>", "<U+114D8>", "<U+114D9>">>,
     <<"<U+11650>", "<U+11651>", "<U+11652>", "<U+11653>", "<U+11654>", "<U+11655>", "<U+11656>", "<U+11657>", "<U+11658>", "<U+11659>">>,
     <<"<U+116C0>", "<U+116C1>", "<U+116C2>", "<U+116C3>", "<U+116C4>", "<U+116C5>", "<U+116C6>", "<U+116C7>", "<U+116C8>", "<U+116C9>">>,
     <<"<U+11730>", "<U+11731>", "<U+11732>", "<U+11733>", "<U+11734>", "<U+11735>", "<U+11736>", "<U+11737>", "<U+11738>", "<U+11739>">>,
     <<"<U+118E0>", "<U+118E1>", "<U+118E2>", "<U+118E3>", "<U+118E4>", "<U+118E5>", "<U+118E6>", "<U+118E7>", "<U+118E8>", "<U+118E9>">>,
     <<"<U+11950>", "<U+11951>", "<U+11952>", "<U+11953>", "<U+11954>", "<U+11955>", "<U+11956>", "<U+11957>", "<U+11958>", "<U+11959>">>,
     <<"<U+11C50>", "<U+11C51>", "<U+11C52>", "<U+11C53>", "<U+11C54>", "<U+11C55>", "<U+11C56>", "<U+11C57>", "<U+11C58>", "<U+11C59>">>,
     <<"<U+11D50>", "<U+11D51>", "<U+11D52>", "<U+11D53>", "<U+11D54>", "<U+11D55>", "<U+11D56>", "<U+11D57>", "<U+11D58>", "<U+11D59>">>,
     <<"<U+11DA0>", "<U+11DA1>", "<U+11DA2>", "<U+11DA3>", "<U+11DA4>", "<U+11DA5>", "<U+11DA6>", "<U+11DA7>", "<U+11DA8>", "<U+11DA9>">>,
     <<"<U+16A60>", "<U+16A61>", "<U+16A62>", "<U+16A63>", "<U+16A64>", "<U+16A65>", "<U+16A66>", "<U+16A67>", "<U+16A68>", "<U+16A69>">>,
     <<"<U+16AC0>", "<U+16AC1>", "<U+16AC2>", "<U+16AC3>", "<U+16AC4>", "<U+16AC5>", "<U+16AC6>", "<U+16AC7>", "<U+16AC8>", "<U+16AC9>">>,
     <<"<U+16B50>", "<U+16B51>", "<U+16B52>", "<U+16B53>", "<U+16B54>", "<U+16B55>", "<U+16B56>", "<U+16B57>", "<U+16B58>", "<U+16B59>">>,
     <<"<U+1D7CE>", "<U+1D7CF>", "<U+1D7D0>", "<U+1D7D1>", "<U+1D7D2>", "<U+1D7D3>", "<U+1D7D4>", "<U+1D7D5>", "<U+1D7D6>", "<U+1D7D7>">>,
     <<"<U+1D7D8>", "<U+1D7D9>", "<U+1D7DA>", "<U+1D7DB>", "<U+1D7DC>", "<U+1D7DD>", "<U+1D7DE>", "<U+1D7DF>", "<U+1D7E0>", "<U+1D7E1>">>,
     <<"<U+1D7E2>", "<U+1D7E3>", "<U+1D7E4>", "<U+1D7E5>", "<U+1D7E6>", "<U+1D7E7>", "<U+1D7E8>", "<U+1D7E9>", "<U+1D7EA>", "<U+1D7EB>">>,
     <<"<U+1D7EC>", "<U+1D7ED>", "<U+1D7EE>", "<U+1D7EF>", "<U+1D7F0>", "<U+1D7F1>", "<U+1D7F2>", "<U+1D7F3>", "<U+1D7F4>", "<U+1D7F5>">>,
     <<"<U+1D7F6>", "<U+1D7F7>", "<U+1D7F8>", "<U+1D7F9>", "<U+1D7FA>", "<U+1D7FB>", "<U+1D7FC>", "<U+1D7FD>", "<U+1D7FE>", "<U+1D7FF>">>,
     <<"<U+1E140>", "<U+1E141>", "<U+1E142>", "<U+1E143>", "<U+1E144>", "<U+1E145>", "<U+1E146>", "<U+1E147>", "<U+1E148>", "<U+1E149>">>,
     <<"<U+1E2F0>", "<U+1E2F1>", "<U+1E2F2>", "<U+1E2F3>", "<U+1E2F4>", "<U+1E2F5>", "<U+1E2F6>", "<U+1E2F7>", "<U+1E2F8>", "<U+1E2F9>">>,
     <<"<U+1E950>", "<U+1E951>", "<U+1E952>", "<U+1E953>", "<U+1E954>", "<U+1E955>", "<U+1E956>", "<U+1E957>", "<U+1E958>", "<U+1E959>">>,
     <<"<U+1FBF0>", "<U+1FBF1>", "<U+1FBF2>", "<U+1FBF3>", "<U+1FBF4>", "<U+1FBF5>", "<U+1FBF6>", "<U+1FBF7>", "<U+1FBF8>", "<U+1FBF9>">>
    >>

\* The characters of UNICODE_DIGITS.
UnicodeDigits == {UNICODE_DIGITS[r][i] : r \in 1..Len(UNICODE_DIGITS), i \in 1..10}

\* The class [lo-hi] of a pattern, lo and hi being ASCII digits.
Among(c, lo, hi) == \E i \in (lo + 1)..(hi + 1) : DIGITS[i] = c

\* The class \d of a str pattern: every Unicode decimal digit.
IsDigit(c) == Among(c, 0, 9) \/ c \in UnicodeDigits

\* int(c) for one decimal digit.
DigitVal(c) ==
    IF Among(c, 0, 9) THEN (CHOOSE i \in 1..10 : DIGITS[i] = c) - 1
    ELSE (CHOOSE i \in 1..10 : \E r \in 1..Len(UNICODE_DIGITS) : UNICODE_DIGITS[r][i] = c) - 1

IsDigits(s) == \A i \in 1..Len(s) : IsDigit(s[i])

RECURSIVE DecVal(_)
\* int(s) for a non-empty sequence of decimal digits.
DecVal(s) == IF Len(s) = 0 THEN 0 ELSE DecVal(SubSeq(s, 1, Len(s) - 1)) * 10 + DigitVal(s[Len(s)])

RECURSIVE Pow10(_)
Pow10(k) == IF k = 0 THEN 1 ELSE 10 * Pow10(k - 1)

---------------------------------------------------------------------------
(* datetime / timedelta.                                                   *)

\* The day the model's clock runs in.
Epoch == [year |-> 2016, month |-> 1, day |-> 1]

\* The microsecond components the clock takes.
Micros == {0, 1, 999999}

Datetime(h, us) == [year |-> Epoch.year, month |-> Epoch.month, day |-> Epoch.day, hour |-> h, minute |-> 0, second |-> 0, microsecond |-> us]

Times == {Datetime(h, us) : h \in 0..MaxHour, us \in Micros}

\* datetime.isoformat(): the fraction is written only when microsecond # 0.
IsoFormat(dt) ==
    LeftPad(Dec(dt.year), 4, "0") \o <<"-">> \o LeftPad(Dec(dt.month), 2, "0") \o <<"-">>
    \o LeftPad(Dec(dt.day), 2, "0") \o <<"T">> \o LeftPad(Dec(dt.hour), 2, "0") \o <<":">>
    \o LeftPad(Dec(dt.minute), 2, "0") \o <<":">> \o LeftPad(Dec(dt.second), 2, "0")
    \o (IF dt.microsecond = 0 THEN <<>> ELSE <<".">> \o LeftPad(Dec(dt.microsecond), 6, "0"))

ParseError == [ok |-> FALSE, dt |-> Datetime(0, 0)]

\* Leap years of the proleptic Gregorian calendar.
IsLeap(year) == (year % 4 = 0 /\ year % 100 # 0) \/ year % 400 = 0

\* The number of days of a month.
DaysInMonth(year, month) ==
    IF month = 2 THEN (IF IsLeap(year) THEN 29 ELSE 28)
    ELSE IF month \in {4, 6, 9, 11} THEN 30
    ELSE 31

\* The last character of the directive that starts at s[i] and is followed
\* by one of seps: the directives of one or two characters are told apart
\* by where the literal after them stands.
FieldEnd(s, i, seps) == IF i + 1 <= Len(s) /\ s[i + 1] \in seps THEN i ELSE i + 1

\* %m: 1[0-2]|0[1-9]|[1-9]
IsMonth(x) ==
    \/ Len(x) = 2 /\ x[1] = "1" /\ Among(x[2], 0, 2)
    \/ Len(x) = 2 /\ x[1] = "0" /\ Among(x[2], 1, 9)
    \/ Len(x) = 1 /\ Among(x[1], 1, 9)

\* %d: 3[0-1]|[1-2]\d|0[1-9]|[1-9]| [1-9]
IsDay(x) ==
    \/ Len(x) = 2 /\ x[1] = "3" /\ Among(x[2], 0, 1)
    \/ Len(x) = 2 /\ Among(x[1], 1, 2) /\ IsDigit(x[2])
    \/ Len(x) = 2 /\ x[1] = "0" /\ Among(x[2], 1, 9)
    \/ Len(x) = 1 /\ Among(x[1], 1, 9)
    \/ Len(x) = 2 /\ x[1] = " " /\ Among(x[2], 1, 9)

\* int() of a %d match: the leading space is skipped.
DayVal(x) == IF x[1] = " " THEN DecVal(Tail(x)) ELSE DecVal(x)

\* %H: 2[0-3]|[0-1]\d|\d
IsHour(x) ==
    \/ Len(x) = 2 /\ x[1] = "2" /\ Among(x[2], 0, 3)
    \/ Len(x) = 2 /\ Among(x[1], 0, 1) /\ IsDigit(x[2])
    \/ Len(x) = 1 /\ IsDigit(x[1])

\* %M: [0-5]\d|\d
IsMinute(x) ==
    \/ Len(x) = 2 /\ Among(x[1], 0, 5) /\ IsDigit(x[2])
    \/ Len(x) = 1 /\ IsDigit(x[1])

\* %S: 6[0-1]|[0-5]\d|\d
IsSecond(x) ==
    \/ Len(x) = 2 /\ x[1] = "6" /\ Among(x[2], 0, 1)
    \/ Len(x) = 2 /\ Among(x[1], 0, 5) /\ IsDigit(x[2])
    \/ Len(x) = 1 /\ IsDigit(x[1])

\* %f: [0-9]{1,6}
IsFraction(x) == Len(x) \in 1..6 /\ \A i \in 1..Len(x) : Among(x[i], 0, 9)

\* The datetime built from the matched directives, the fraction scaled to
\* microseconds; the constructor raises ValueError for year 0, for a day
\* the month does not have, and for second 60 or 61.
StrptimeBuild(Y, m, d, H, M, S, f) ==
    IF Y >= 1 /\ d <= DaysInMonth(Y, m) /\ S <= 59
    THEN [ok |-> TRUE,
          dt |-> [year |-> Y, month |-> m, day |-> d, hour |-> H, minute |-> M, second |-> S,
                  microsecond |-> DecVal(f) * Pow10(6 - Len(f))]]
    ELSE ParseError

\* The match of %S.%f, the seconds ending at eS and the fraction being the
\* rest of the text.
StrptimeSecond(s, em, ed, eH, eM, eS) ==
    IF /\ eS + 1 <= Len(s)
       /\ s[eS + 1] = "."
       /\ IsSecond(SubSeq(s, eM + 2, eS))
       /\ IsFraction(SubSeq(s, eS + 2, Len(s)))
    THEN StrptimeBuild(DecVal(SubSeq(s, 1, 4)), DecVal(SubSeq(s, 6, em)), DayVal(SubSeq(s, em + 2, ed)),
                       DecVal(SubSeq(s, ed + 2, eH)), DecVal(SubSeq(s, eH + 2, eM)),
                       DecVal(SubSeq(s, eM + 2, eS)), SubSeq(s, eS + 2, Len(s)))
    ELSE ParseError

\* The match of %M: and what follows.
StrptimeMinute(s, em, ed, eH, eM) ==
    IF eM + 1 <= Len(s) /\ s[eM + 1] = ":" /\ IsMinute(SubSeq(s, eH + 2, eM))
    THEN StrptimeSecond(s, em, ed, eH, eM, FieldEnd(s, eM + 2, {"."}))
    ELSE ParseError

\* The match of %H: and what follows.
StrptimeHour(s, em, ed, eH) ==
    IF eH + 1 <= Len(s) /\ s[eH + 1] = ":" /\ IsHour(SubSeq(s, ed + 2, eH))
    THEN StrptimeMinute(s, em, ed, eH, FieldEnd(s, eH + 2, {":"}))
    ELSE ParseError

\* The match of %dT and what follows; the pattern ignores case, so the
\* literal is T or t.
StrptimeDay(s, em, ed) ==
    IF ed + 1 <= Len(s) /\ s[ed + 1] \in {"T", "t"} /\ IsDay(SubSeq(s, em + 2, ed))
    THEN StrptimeHour(s, em, ed, FieldEnd(s, ed + 2, {":"}))
    ELSE ParseError

\* The match of %m- and what follows.
StrptimeMonth(s, em) ==
    IF em + 1 <= Len(s) /\ s[em + 1] = "-" /\ IsMonth(SubSeq(s, 6, em))
    THEN StrptimeDay(s, em, FieldEnd(s, em + 2, {"T", "t"}))
    ELSE ParseError

\* datetime.strptime(s, "%Y-%m-%dT%H:%M:%S.%f"): the pattern built from the
\* format must match from the start and leave nothing unconverted.  %Y is
\* four digits (\d\d\d\d), the other directives one or two characters, the
\* fraction 1 to 6 digits; anything else is a ValueError.
Strptime(s) ==
    IF Len(s) >= 5 /\ IsDigits(SubSeq(s, 1, 4)) /\ s[5] = "-"
    THEN StrptimeMonth(s, FieldEnd(s, 6, {"-"}))
    ELSE ParseError

\* timedelta(days, seconds, microseconds), normalised as the constructor does:
\* 0 <= microseconds < 1000000 and 0 <= seconds < 86400, the sign in days.
Timedelta(days, seconds, microseconds) ==
    LET s == seconds + (microseconds \div 1000000)
    IN  [days |-> days + (s \div 86400), seconds |-> s % 86400, microseconds |-> microseconds % 1000000]

\* The days of the months before `month` in `year`.
RECURSIVE DaysBeforeMonth(_, _)
DaysBeforeMonth(year, month) == IF month = 1 THEN 0 ELSE DaysBeforeMonth(year, month - 1) + DaysInMonth(year, month - 1)

\* date.toordinal(): the day's number, 0001-01-01 being day 1.
ToOrdinal(dt) ==
    365 * (dt.year - 1) + ((dt.year - 1) \div 4) - ((dt.year - 1) \div 100) + ((dt.year - 1) \div 400)
    + DaysBeforeMonth(dt.year, dt.month) + dt.day

\* datetime.__sub__
DtSub(a, b) ==
    Timedelta(ToOrdinal(a) - ToOrdinal(b),
              (a.hour * 3600 + a.minute * 60 + a.second) - (b.hour * 3600 + b.minute * 60 + b.second),
              a.microsecond - b.microsecond)

\* timedelta(hours=h)
TimedeltaHours(h) == Timedelta(0, h * 3600, 0)

\* timedelta.__lt__: compares (days, seconds, microseconds) lexicographically.
TdLess(x, y) ==
    \/ x.days < y.days
    \/ x.days = y.days /\ x.seconds < y.seconds
    \/ x.days = y.days /\ x.seconds = y.seconds /\ x.microseconds < y.microseconds

\* The clock is non-decreasing: a <= b for instants of the model's day.
DtLeq(a, b) == ~TdLess(DtSub(b, a), Timedelta(0, 0, 0))

---------------------------------------------------------------------------
(* Alert deduplication and dispatch (ElemacController).                    *)

\* The dedup channels alarms are raised on (bank codes of MEAS_BANKS_DATA).
Channels == {"temp1", "ph1"}

\* dedup_channel=None, as test_alerts passes it.
None == "<None>"

\* What send_alerts may be given as dedup_channel.
ChannelArgs == Channels \cup {None, ""}

\* `not dedup_channel`
Falsy(dedup_channel) == dedup_channel = None \/ dedup_channel = ""

\* The files LAST_ALERT_TIMESTAMP_FILE + key, by key.
FileKeys == Channels \cup {""}

NoFile == [exists |-> FALSE, text |-> <<>>]

File(text) == [exists |-> TRUE, text |-> text]

\* The options send_email_alert requires.
EmailKeys == {"email_host", "email_user", "email_password", "email_to"}

\* The configurations explored: the window absent or 1..MaxWindow hours, and
\* the email options complete, absent, or lacking one required option.
Configs ==
    {[has_hours |-> FALSE, hours |-> 0, keys |-> k] : k \in {EmailKeys, {}, EmailKeys \ {"email_to"}}}
    \cup {[has_hours |-> TRUE, hours |-> h, keys |-> k] : h \in 1..MaxWindow, k \in {EmailKeys, {}, EmailKeys \ {"email_to"}}}

RECURSIVE Readline(_)
\* file.readline() on a file opened with open(path, 'r'): the text up to and
\* including the first line ending, which universal newlines hands over as
\* "\n" whether the file holds "\n", "\r\n" or "\r".
Readline(text) ==
    IF Len(text) = 0 THEN <<>>
    ELSE IF Head(text) = "\n" THEN <<"\n">>
    ELSE IF Head(text) = "\r" THEN <<"\n">>
    ELSE <<Head(text)>> \o Readline(Tail(text))

\* The files check_dedup_suppression opens for reading.
DedupFilesOpened(dedup_channel, cfg) ==
    IF Falsy(dedup_channel) THEN {}
    ELSE IF ~cfg.has_hours THEN {}
    ELSE {dedup_channel}

\* check_dedup_suppression with `<=` for `<`.
CheckDedupSuppressionInclusive(dedup_channel, cfg, fs, t) ==
    IF Falsy(dedup_channel) THEN FALSE
    ELSE IF ~cfg.has_hours THEN FALSE
    ELSE IF ~fs[dedup_channel].exists THEN FALSE
    ELSE LET last_alert == Strptime(Readline(fs[dedup_channel].text))
         IN  IF ~last_alert.ok THEN FALSE
             ELSE ~TdLess(TimedeltaHours(cfg.hours), DtSub(t, last_alert.dt))

\* open(path, mode) on the timestamp files.  ok: FALSE for the
\* FileNotFoundError of mode 'r' on a missing file; files: the files once
\* the call returned ('w+' creates or truncates, 'a+' creates); text: what
\* the stream holds from its position on ('a+' starts at the end).
OpenFile(fs, key, mode) ==
    IF mode = "r"
    THEN [ok |-> fs[key].exists, files |-> fs, text |-> fs[key].text]
    ELSE IF mode = "a+"
    THEN [ok |-> TRUE, files |-> IF fs[key].exists THEN fs ELSE [fs EXCEPT ![key] = File(<<>>)], text |-> <<>>]
    ELSE [ok |-> TRUE, files |-> [fs EXCEPT ![key] = File(<<>>)], text |-> <<>>]

\* check_dedup_suppression opening the timestamp file so that a missing one
\* is created.
DedupOpenModeAppend == "a+"

\* The mode check_dedup_suppression opens the timestamp file in.
DedupOpenMode == "r"

\* The rest of check_dedup_suppression once strptime returned or raised
\* ValueError: the comparison of the age with the window.
CheckParsed(cfg, fs, t, last_alert) ==
    [result |-> last_alert.ok /\ TdLess(DtSub(t, last_alert.dt), TimedeltaHours(cfg.hours)), files |-> fs]

\* The rest of check_dedup_suppression once open returned or raised
\* FileNotFoundError: readline and strptime.
CheckOpened(cfg, t, o) ==
    IF ~o.ok THEN [result |-> FALSE, files |-> o.files]
    ELSE CheckParsed(cfg, o.files, t, Strptime(Readline(o.text)))

\* One check_dedup_suppression call with the clock at t.  result: what it
\* returns; files: the timestamp files once it returned.
CheckDedupSuppressionRun(dedup_channel, cfg, fs, t) ==
    IF Falsy(dedup_channel) THEN [result |-> FALSE, files |-> fs]
    ELSE IF ~cfg.has_hours THEN [result |-> FALSE, files |-> fs]
    ELSE CheckOpened(cfg, t, OpenFile(fs, dedup_channel, DedupOpenMode))

\* check_dedup_suppression: TRUE iff the alert is to be suppressed.
CheckDedupSuppression(dedup_channel, cfg, fs, t) == CheckDedupSuppressionRun(dedup_channel, cfg, fs, t).result

\* save_dedup_suppression_state that only skips None.
SaveDedupSuppressionStateNoneOnly(dedup_channel, fs, t) ==
    IF dedup_channel = None THEN [files |-> fs, wrote |-> {}]
    ELSE [files |-> [fs EXCEPT ![dedup_channel] = File(IsoFormat(t))], wrote |-> {dedup_channel}]

\* save_dedup_suppression_state keeping one timestamp for all channels.
SaveDedupSuppressionStateShared(dedup_channel, fs, t) ==
    IF Falsy(dedup_channel) THEN [files |-> fs, wrote |-> {}]
    ELSE [files |-> [k \in DOMAIN fs |-> IF k \in Channels THEN File(IsoFormat(t)) ELSE fs[k]], wrote |-> {dedup_channel}]

\* save_dedup_suppression_state at instant t: the files afterwards and the
\* keys of the files it wrote.
SaveDedupSuppressionState(dedup_channel, fs, t) ==
    IF Falsy(dedup_channel) THEN [files |-> fs, wrote |-> {}]
    ELSE [files |-> [fs EXCEPT ![dedup_channel] = File(IsoFormat(t))], wrote |-> {dedup_channel}]

\* send_email_alert without the try/except around the SMTP calls.
SendEmailAlertUncaught(cfg, smtp) ==
    IF "email_host" \notin cfg.keys THEN [email |-> "skipped", smtp |-> FALSE]
    ELSE IF "email_user" \notin cfg.keys THEN [email |-> "skipped", smtp |-> FALSE]
    ELSE IF "email_password" \notin cfg.keys THEN [email |-> "skipped", smtp |-> FALSE]
    ELSE IF "email_to" \notin cfg.keys THEN [email |-> "skipped", smtp |-> FALSE]
    ELSE IF smtp = "ok" THEN [email |-> "sent", smtp |-> TRUE]
    ELSE [email |-> "raised", smtp |-> TRUE]

\* send_email_alert: `smtp` is what the SMTP connect/login/sendmail does ("ok" or
\* "error").  email: "skipped" (an option is missing), "sent", "failed" (the
\* exception was caught and printed) or "raised" (it left the function);
\* smtp: whether the SMTP server was contacted.
SendEmailAlert(cfg, smtp) ==
    IF "email_host" \notin cfg.keys THEN [email |-> "skipped", smtp |-> FALSE]
    ELSE IF "email_user" \notin cfg.keys THEN [email |-> "skipped", smtp |-> FALSE]
    ELSE IF "email_password" \notin cfg.keys THEN [email |-> "skipped", smtp |-> FALSE]
    ELSE IF "email_to" \notin cfg.keys THEN [email |-> "skipped", smtp |-> FALSE]
    ELSE IF smtp = "ok" THEN [email |-> "sent", smtp |-> TRUE]
    ELSE [email |-> "failed", smtp |-> TRUE]

\* send_sms_alert: not implemented, nothing is handed to any SMS transport.
SendSmsAlert(message) == [sms_sent |-> FALSE]

\* No send_alerts call was made yet.  channel: the dedup_channel given;
\* suppressed: it returned at the dedup check; opened / wrote: the timestamp
\* files read / written; email: "not_invoked" or the outcome of send_email_alert;
\* smtp: the SMTP server was contacted; sms: send_sms_alert was invoked;
\* sms_sent: an SMS was handed to a transport; raised: an exception left the
\* call; nth: the number of send_alerts calls made so far, modulo 2, by which
\* a call that repeats the previous one to the letter is still a call.
NoCall == [made |-> FALSE, channel |-> "", suppressed |-> FALSE, opened |-> {}, wrote |-> {}, email |-> "not_invoked", smtp |-> FALSE, sms |-> FALSE, sms_sent |-> FALSE, raised |-> FALSE, nth |-> 0]

\* The part of send_alerts after the dedup check: both deliveries, then the
\* bookkeeping.  An exception leaving send_email_alert ends the call there.
Deliver(dedup_channel, suppressed) ==
    \E smtp \in {"ok", "error"}, t \in Times :
        LET e == SendEmailAlert(config, smtp)
            s == SendSmsAlert("brief")
            saved == SaveDedupSuppressionState(dedup_channel, files, t)
            entered == [NoCall EXCEPT !.made = TRUE, !.channel = dedup_channel,
                           !.suppressed = suppressed,
                           !.opened = DedupFilesOpened(dedup_channel, config),
                           !.email = e.email, !.smtp = e.smtp,
                           !.nth = (call.nth + 1) % 2]
        IN  /\ DtLeq(now, t)
            /\ now' = t
            /\ IF e.email = "raised"
               THEN /\ files' = files
                    /\ call' = [entered EXCEPT !.raised = TRUE]
               ELSE /\ files' = saved.files
                    /\ call' = [entered EXCEPT !.sms = TRUE, !.sms_sent = s.sms_sent,
                                               !.wrote = saved.wrote]

\* send_alerts without the `return` after the dedup check.
SendAlertsNoReturn(dedup_channel) ==
    /\ dedup_channel \in ChannelArgs
    /\ Deliver(dedup_channel, CheckDedupSuppression(dedup_channel, config, files, now))
    /\ UNCHANGED <<config, deviceVars, pollVars, probe>>

\* send_alerts whose suppressed calls save the timestamp anew.
SendAlertsRestamping(dedup_channel) ==
    /\ dedup_channel \in ChannelArgs
    /\ IF CheckDedupSuppression(dedup_channel, config, files, now)
       THEN /\ call' = [NoCall EXCEPT !.made = TRUE, !.channel = dedup_channel,
                           !.suppressed = TRUE,
                           !.opened = DedupFilesOpened(dedup_channel, config),
                           !.nth = (call.nth + 1) % 2]
            /\ files' = SaveDedupSuppressionState(dedup_channel, files, now).files
            /\ UNCHANGED now
       ELSE Deliver(dedup_channel, FALSE)
    /\ UNCHANGED <<config, deviceVars, pollVars, probe>>

\* send_alerts(summary, details, dedup_channel=...).  The clock is read by
\* check_dedup_suppression (now) and again, not earlier, by
\* save_dedup_suppression_state (t).
SendAlerts(dedup_channel) ==
    /\ dedup_channel \in ChannelArgs
    /\ IF CheckDedupSuppression(dedup_channel, config, files, now)
       THEN /\ call' = [NoCall EXCEPT !.made = TRUE, !.channel = dedup_channel,
                           !.suppressed = TRUE,
                           !.opened = DedupFilesOpened(dedup_channel, config),
                           !.nth = (call.nth + 1) % 2]
            /\ UNCHANGED <<now, files>>
       ELSE Deliver(dedup_channel, FALSE)
    /\ UNCHANGED <<config, deviceVars, pollVars, probe>>

\* Time passes between two invocations.
Tick ==
    /\ \E t \in Times : DtLeq(now, t) /\ t # now /\ now' = t
    /\ UNCHANGED <<files, config, call, deviceVars, pollVars, probe>>

---------------------------------------------------------------------------
(* The memory-read protocol (ElemacDevice.send_command / read_ram).        *)

\* The null byte b'\0'.
NUL == "<NUL>"

\* The vertical tab b'\x0b'.
VT == "<VT>"

\* A byte >= 0x80, which is not ASCII.
HIGH == "<FF>"

\* The bytes device responses are made of.
Alphabet == {"0", "1", "2", "4", "a", "c", "g", " ", VT, NUL, HIGH}

\* The responses explored: every byte string of at most MaxRespLen bytes.
Responses == UNION {[1..n -> Alphabet] : n \in 0..MaxRespLen}

HEXUPPER == <<"0", "1", "2", "3", "4", "5", "6", "7", "8", "9", "A", "B", "C", "D", "E", "F">>

IsHexDigit(c) == \E i \in 1..16 : HEXDIGITS[i] = c \/ HEXUPPER[i] = c

HexDigitVal(c) == (CHOOSE i \in 1..16 : HEXDIGITS[i] = c \/ HEXUPPER[i] = c) - 1

\* The characters int() strips from both ends of its argument.
WHITESPACE == {" ", "\t", "\n", VT, "\f", "\r"}

RECURSIVE LStrip(_)
LStrip(s) == IF Len(s) > 0 /\ Head(s) \in WHITESPACE THEN LStrip(Tail(s)) ELSE s

RECURSIVE RStrip(_)
RStrip(s) == IF Len(s) > 0 /\ s[Len(s)] \in WHITESPACE THEN RStrip(SubSeq(s, 1, Len(s) - 1)) ELSE s

RECURSIVE HexVal(_)
\* The value of a sequence of hex digits and underscores, most significant first.
HexVal(s) ==
    IF Len(s) = 0 THEN 0
    ELSE IF s[Len(s)] = "_" THEN HexVal(SubSeq(s, 1, Len(s) - 1))
    ELSE HexVal(SubSeq(s, 1, Len(s) - 1)) * 16 + HexDigitVal(s[Len(s)])

\* int(s, 16): surrounding whitespace is stripped, then an optional sign, an
\* optional 0x / 0X prefix, and one or more hex digits of either case with
\* single underscores between them; anything else is a ValueError.
PyInt16(s) ==
    LET t == RStrip(LStrip(s))
        signed == Len(t) > 0 /\ t[1] \in {"+", "-"}
        u == IF signed THEN Tail(t) ELSE t
        prefixed == Len(u) >= 2 /\ u[1] = "0" /\ u[2] \in {"x", "X"}
        v == IF prefixed THEN SubSeq(u, 3, Len(u)) ELSE u
        w == IF prefixed /\ Len(v) > 0 /\ v[1] = "_" THEN Tail(v) ELSE v
        valid == /\ Len(w) > 0
                 /\ \A i \in 1..Len(w) :
                       \/ IsHexDigit(w[i])
                       \/ w[i] = "_" /\ i > 1 /\ i < Len(w) /\ IsHexDigit(w[i - 1]) /\ IsHexDigit(w[i + 1])
    IN  IF ~valid THEN [ok |-> FALSE, value |-> 0]
        ELSE [ok |-> TRUE, value |-> IF signed /\ t[1] = "-" THEN 0 - HexVal(w) ELSE HexVal(w)]

RECURSIVE SplitFirst(_)
\* data.split(b'\0')[0]: the bytes before the first null byte.
SplitFirst(data) ==
    IF Len(data) = 0 \/ Head(data) = NUL THEN <<>>
    ELSE <<Head(data)>> \o SplitFirst(Tail(data))

\* bytes.decode('ascii') succeeds iff every byte is below 0x80.
IsAscii(bytes) == \A i \in 1..Len(bytes) : bytes[i] # HIGH

RECURSIVE Chunks(_)
\* [response[i:i+2] for i in range(0, len(response), 2)]
Chunks(response) ==
    IF Len(response) = 0 THEN <<>>
    ELSE IF Len(response) <= 2 THEN <<response>>
    ELSE <<SubSeq(response, 1, 2)>> \o Chunks(SubSeq(response, 3, Len(response)))

RECURSIVE Reversed(_)
Reversed(seq) == IF Len(seq) = 0 THEN <<>> ELSE Reversed(Tail(seq)) \o <<Head(seq)>>

RECURSIVE Join(_)
\* ''.join(parts)
Join(parts) == IF Len(parts) = 0 THEN <<>> ELSE Head(parts) \o Join(Tail(parts))

\* One transport operation of the trace.
Op(kind, ok) == [op |-> kind, ok |-> ok]

\* What the transport does on a read: a timeout / I/O error, or the data read.
ReadFails == [ok |-> FALSE, data |-> <<>>]

ReadGives(data) == [ok |-> TRUE, data |-> data]

\* send_command that reads a second time after a failed read.
SendCommandRetry(command, wr, rd) ==
    LET written_ == command \o <<NUL>>
    IN  IF wr # "ok"
        THEN [written |-> written_, ops |-> <<Op("write", FALSE)>>, ok |-> FALSE, exc |-> "USBError", response |-> <<>>]
        ELSE IF ~rd.ok
        THEN [written |-> written_, ops |-> <<Op("write", TRUE), Op("read", FALSE), Op("read", FALSE)>>, ok |-> FALSE, exc |-> "USBError", response |-> <<>>]
        ELSE IF ~IsAscii(SplitFirst(rd.data))
        THEN [written |-> written_, ops |-> <<Op("write", TRUE), Op("read", TRUE)>>, ok |-> FALSE, exc |-> "UnicodeDecodeError", response |-> <<>>]
        ELSE [written |-> written_, ops |-> <<Op("write", TRUE), Op("read", TRUE)>>, ok |-> TRUE, exc |-> "", response |-> SplitFirst(rd.data)]

\* send_command(command): wr is what dev.write does ("ok" or "error"), rd what
\* dev.read does.  written: the bytes handed to dev.write; ops: the transport
\* operations issued; ok / exc: whether it returned or which exception left it;
\* response: the str returned.
SendCommand(command, wr, rd) ==
    LET written_ == command \o <<NUL>>
    IN  IF wr # "ok"
        THEN [written |-> written_, ops |-> <<Op("write", FALSE)>>, ok |-> FALSE, exc |-> "USBError", response |-> <<>>]
        ELSE IF ~rd.ok
        THEN [written |-> written_, ops |-> <<Op("write", TRUE), Op("read", FALSE)>>, ok |-> FALSE, exc |-> "USBError", response |-> <<>>]
        ELSE IF ~IsAscii(SplitFirst(rd.data))
        THEN [written |-> written_, ops |-> <<Op("write", TRUE), Op("read", TRUE)>>, ok |-> FALSE, exc |-> "UnicodeDecodeError", response |-> <<>>]
        ELSE [written |-> written_, ops |-> <<Op("write", TRUE), Op("read", TRUE)>>, ok |-> TRUE, exc |-> "", response |-> SplitFirst(rd.data)]

\* The request string of read_ram: 'r' + str(size - 1) + '{:3x}'.format(address).
\* The format pads to width 3 with spaces.
Cmd(address, size) == <<"r">> \o Dec(size - 1) \o LeftPad(Hex(address), 3, " ")

\* read_ram's decoding without the reversal of the byte groups (big-endian).
DecodeBigEndian(response) == PyInt16(Join(Chunks(response)))

\* The value read_ram computes from the response str.
Decode(response) == PyInt16(Join(Reversed(Chunks(response))))

\* read_ram(address, size): cmd / written / ops as in send_command; ok, value:
\* the int returned; exc: the exception that left the call otherwise.
ReadRam(address, size, wr, rd) ==
    IF ~(size >= 1 /\ size <= 4)
    THEN [cmd |-> <<>>, written |-> <<>>, ops |-> <<>>, ok |-> FALSE, exc |-> "AssertionError", value |-> 0]
    ELSE LET cmd == Cmd(address, size)
             sent == SendCommand(cmd, wr, rd)
             value == Decode(sent.response)
         IN  IF ~sent.ok
             THEN [cmd |-> cmd, written |-> sent.written, ops |-> sent.ops, ok |-> FALSE, exc |-> sent.exc, value |-> 0]
             ELSE IF ~value.ok
             THEN [cmd |-> cmd, written |-> sent.written, ops |-> sent.ops, ok |-> FALSE, exc |-> "ValueError", value |-> 0]
             ELSE [cmd |-> cmd, written |-> sent.written, ops |-> sent.ops, ok |-> TRUE, exc |-> "", value |-> value.value]

\* No read_ram call was made yet.
NoRam == [made |-> FALSE, address |-> 0, size |-> 1, wr |-> "ok", rd |-> ReadFails, cmd |-> <<>>, ok |-> FALSE, exc |-> "", value |-> 0]

\* One read_ram call of a running process.  No caller (read_meas,
\* update_all_measurements, the commands, main) catches an exception: one that
\* leaves read_ram ends the process.
ReadRamCall(address, size, wr, rd) ==
    LET r == ReadRam(address, size, wr, rd)
    IN  /\ status = "running"
        /\ ram' = [made |-> TRUE, address |-> address, size |-> size, wr |-> wr, rd |-> rd,
                   cmd |-> r.cmd, ok |-> r.ok, exc |-> r.exc, value |-> r.value]
        /\ written' = r.written
        /\ trace' = trace \o r.ops
        /\ status' = IF r.ok THEN "running" ELSE "crashed"
        /\ UNCHANGED <<alertVars, pollVars, probe>>

---------------------------------------------------------------------------
(* The measurement banks (ElemacDevice.read_meas /                         *)
(* update_all_measurements).                                               *)

MEAS_BASE == 1864

MEAS_STRUCT_SIZE == 17

\* MEAS_FIELD_DATA with the hysteresis field two bytes wide.
MeasFieldDataWideHysteresis ==
    [flags |-> [offset |-> 0, size |-> 1, divisive |-> FALSE],
     type |-> [offset |-> 1, size |-> 1, divisive |-> FALSE],
     measured |-> [offset |-> 2, size |-> 2, divisive |-> TRUE],
     alarm_high |-> [offset |-> 4, size |-> 2, divisive |-> TRUE],
     day_high |-> [offset |-> 6, size |-> 2, divisive |-> TRUE],
     night_high |-> [offset |-> 8, size |-> 2, divisive |-> TRUE],
     hysteresis |-> [offset |-> 10, size |-> 2, divisive |-> TRUE],
     night_low |-> [offset |-> 11, size |-> 2, divisive |-> TRUE],
     day_low |-> [offset |-> 13, size |-> 2, divisive |-> TRUE],
     alarm_low |-> [offset |-> 15, size |-> 2, divisive |-> TRUE]]

\* MEAS_FIELD_DATA: field -> (offset, size, divisive); the display name is
\* left out.
MEAS_FIELD_DATA ==
    [flags |-> [offset |-> 0, size |-> 1, divisive |-> FALSE],
     type |-> [offset |-> 1, size |-> 1, divisive |-> FALSE],
     measured |-> [offset |-> 2, size |-> 2, divisive |-> TRUE],
     alarm_high |-> [offset |-> 4, size |-> 2, divisive |-> TRUE],
     day_high |-> [offset |-> 6, size |-> 2, divisive |-> TRUE],
     night_high |-> [offset |-> 8, size |-> 2, divisive |-> TRUE],
     hysteresis |-> [offset |-> 10, size |-> 1, divisive |-> TRUE],
     night_low |-> [offset |-> 11, size |-> 2, divisive |-> TRUE],
     day_low |-> [offset |-> 13, size |-> 2, divisive |-> TRUE],
     alarm_low |-> [offset |-> 15, size |-> 2, divisive |-> TRUE]]

\* The order MEAS_FIELD_DATA.items() yields the fields in (insertion order).
FieldNames == <<"flags", "type", "measured", "alarm_high", "day_high", "night_high", "hysteresis", "night_low", "day_low", "alarm_low">>

\* MEAS_BANKS_DATA: code -> (bank, divisor); the display name and the unit
\* are left out.
MEAS_BANKS_DATA ==
    [temp1 |-> [bank |-> 0, divisor |-> 10],
     temp2 |-> [bank |-> 1, divisor |-> 10],
     temp3 |-> [bank |-> 2, divisor |-> 10],
     temp4 |-> [bank |-> 3, divisor |-> 10],
     ph1 |-> [bank |-> 4, divisor |-> 100],
     ph2 |-> [bank |-> 5, divisor |-> 100],
     humid |-> [bank |-> 6, divisor |-> 10],
     redox |-> [bank |-> 7, divisor |-> 1]]

\* The order MEAS_BANKS_DATA.items() yields the banks in (insertion order).
BankCodes == <<"temp1", "temp2", "temp3", "temp4", "ph1", "ph2", "humid", "redox">>

\* The characters of each bank code, for comparing codes as str.
CodeChars ==
    [temp1 |-> <<"t", "e", "m", "p", "1">>,
     temp2 |-> <<"t", "e", "m", "p", "2">>,
     temp3 |-> <<"t", "e", "m", "p", "3">>,
     temp4 |-> <<"t", "e", "m", "p", "4">>,
     ph1 |-> <<"p", "h", "1">>,
     ph2 |-> <<"p", "h", "2">>,
     humid |-> <<"h", "u", "m", "i", "d">>,
     redox |-> <<"r", "e", "d", "o", "x">>]

\* The digits and lower-case letters in code-point order.
CodePointOrder == <<"0", "1", "2", "3", "4", "5", "6", "7", "8", "9", "a", "b", "c", "d", "e", "f", "g", "h", "i", "j", "k", "l", "m", "n", "o", "p", "q", "r", "s", "t", "u", "v", "w", "x", "y", "z">>

Ord(c) == CHOOSE i \in 1..Len(CodePointOrder) : CodePointOrder[i] = c

RECURSIVE SeqLess(_, _)
\* a < b for two str, character by character.
SeqLess(a, b) ==
    IF Len(b) = 0 THEN FALSE
    ELSE IF Len(a) = 0 THEN TRUE
    ELSE IF Head(a) # Head(b) THEN Ord(Head(a)) < Ord(Head(b))
    ELSE SeqLess(Tail(a), Tail(b))

\* code_a < code_b as Python compares the two str keys.
StrLess(a, b) == SeqLess(CodeChars[a], CodeChars[b])

RECURSIVE Insert(_, _)
\* Inserts the item after every item whose key is not greater (stable).
Insert(item, sorted) ==
    IF Len(sorted) = 0 THEN <<item>>
    ELSE IF StrLess(item[1], Head(sorted)[1]) THEN <<item>> \o sorted
    ELSE <<Head(sorted)>> \o Insert(item, Tail(sorted))

\* The items left in insertion order.
Unsorted(items) == items

RECURSIVE Sorted(_)
\* sorted(items, key=lambda x: x[0]) on a list of (code, record) pairs.
Sorted(items) == IF Len(items) = 0 THEN <<>> ELSE Insert(items[Len(items)], Sorted(SubSeq(items, 1, Len(items) - 1)))

\* value / divisor: the quotient, kept exact as numerator and denominator.
Division(value, divisor) == [num |-> value, den |-> divisor]

\* x > y for two quotients with positive denominators.
Greater(x, y) == x.num * y.den > y.num * x.den

\* x < y for two quotients with positive denominators.
Less(x, y) == x.num * y.den < y.num * x.den

\* The addresses of the measurement banks.
MemAddrs == MEAS_BASE..(MEAS_BASE + Len(BankCodes) * MEAS_STRUCT_SIZE - 1)

\* One byte as two hexadecimal digits.
Hex2(b) == <<HEXDIGITS[(b \div 16) + 1], HEXDIGITS[(b % 16) + 1]>>

\* What the controller answers to a read of `size` bytes at `address`: the
\* bytes in memory order, two hexadecimal digits each, then a terminator.
DeviceAnswer(m, address, size) == ReadGives(Join([i \in 1..size |-> Hex2(m[address + i - 1])]) \o <<NUL>>)

\* No round trip of this process fails.
NoFault == [at |-> 0, kind |-> "none"]

\* What dev.write and dev.read do on round trip k of the process: the write
\* fails, the read fails, the response is not hexadecimal, or the controller
\* answers.
Transport(m, f, k, address, size) ==
    IF f.at = k /\ f.kind = "write" THEN [wr |-> "error", rd |-> ReadFails]
    ELSE IF f.at = k /\ f.kind = "read" THEN [wr |-> "ok", rd |-> ReadFails]
    ELSE IF f.at = k /\ f.kind = "garbled" THEN [wr |-> "ok", rd |-> ReadGives(<<"g", "1", NUL>>)]
    ELSE [wr |-> "ok", rd |-> DeviceAnswer(m, address, size)]

\* The log of a process that issued no request yet.
NoLog == [ok |-> TRUE, exc |-> "", meas |-> <<>>, requests |-> <<>>, ops |-> <<>>, written |-> <<>>, ram |-> NoRam]

\* An entry of the request log.
Request(address, size, cmd) == [address |-> address, size |-> size, cmd |-> cmd]

\* One read_ram call and what the transport did on it.
RamCall(address, size, tr, r) ==
    [made |-> TRUE, address |-> address, size |-> size, wr |-> tr.wr, rd |-> tr.rd,
     cmd |-> r.cmd, ok |-> r.ok, exc |-> r.exc, value |-> r.value, written |-> r.written, ops |-> r.ops]

\* read_ram(address, size) on the transport behaving as tr.
ReadRamOn(address, size, tr) == RamCall(address, size, tr, ReadRam(address, size, tr.wr, tr.rd))

\* Round trip k of the process: read_ram(address, size) on the controller.
Exchange(m, f, k, address, size) == ReadRamOn(address, size, Transport(m, f, k, address, size))

\* The log after the read_ram call x.
Logged(done, x) ==
    [done EXCEPT !.requests = Append(@, Request(x.address, x.size, x.cmd)),
                 !.ops = @ \o x.ops,
                 !.written = x.written,
                 !.ram = [made |-> TRUE, address |-> x.address, size |-> x.size, wr |-> x.wr, rd |-> x.rd,
                          cmd |-> x.cmd, ok |-> x.ok, exc |-> x.exc, value |-> x.value]]

\* What read_meas stores for a field: value / divisor if divisive.
FieldValue(data, divisor, value) == IF data.divisive THEN Division(value, divisor) ELSE value

\* The address read_meas reads field i of a bank at.
FieldAddress(bank, i) == MEAS_BASE + bank * MEAS_STRUCT_SIZE + MEAS_FIELD_DATA[FieldNames[i]].offset

RECURSIVE ReadFields(_, _, _, _, _, _)
RECURSIVE ReadField(_, _, _, _, _, _, _)
\* One iteration of read_meas's loop, x being its read_ram call: an exception
\* leaving read_ram ends the loop.
ReadField(m, f, bank, divisor, i, done, x) ==
    IF ~x.ok
    THEN [Logged(done, x) EXCEPT !.ok = FALSE, !.exc = x.exc]
    ELSE ReadFields(m, f, bank, divisor, i + 1,
             [Logged(done, x) EXCEPT !.meas = @ @@ (FieldNames[i] :> FieldValue(MEAS_FIELD_DATA[FieldNames[i]], divisor, x.value))])

\* The fields read_meas reads after the first i - 1, in order.  done: the
\* record built so far, the requests and transport operations of the
\* process so far, and its last read_ram call.
ReadFields(m, f, bank, divisor, i, done) ==
    IF i > Len(FieldNames) THEN done
    ELSE ReadField(m, f, bank, divisor, i, done,
             Exchange(m, f, Len(done.requests) + 1, FieldAddress(bank, i), MEAS_FIELD_DATA[FieldNames[i]].size))

\* meas['available'] = meas['flags'] & 1, when the loop completed.
WithAvailable(r) == IF r.ok THEN [r EXCEPT !.meas = @ @@ ("available" :> (r.meas["flags"] % 2))] ELSE r

\* read_meas that reads a bank's flags once and then takes them as read.
ReadMeasCachedFlags(m, f, bank, divisor, log) ==
    IF bank = 0 THEN WithAvailable(ReadFields(m, f, bank, divisor, 1, [log EXCEPT !.meas = <<>>]))
    ELSE WithAvailable(ReadFields(m, f, bank, divisor, 2, [log EXCEPT !.meas = ("flags" :> 1)]))

\* read_meas(bank, divisor): ok, meas: the record returned; exc: the
\* exception that left it otherwise.  log: the requests, the transport
\* operations and the last read_ram call of the process so far.
ReadMeas(m, f, bank, divisor, log) == WithAvailable(ReadFields(m, f, bank, divisor, 1, [log EXCEPT !.meas = <<>>]))

\* An attribute that was never assigned.
Unset == [kind |-> "unset", items |-> <<>>]

\* A dict, as its (key, value) pairs in insertion order.
Dict(items) == [kind |-> "dict", items |-> items]

\* A list.
List(items) == [kind |-> "list", items |-> items]

\* The record update_all_measurements stores: read_meas's, with the bank's
\* number and divisor.
Tagged(meas, data) == meas @@ ("bank" :> data.bank) @@ ("divisor" :> data.divisor)

\* self.measurements[code] = meas, and the same record under
\* available_measurements[code] if meas['available'].
Stored(done, code, meas, r) ==
    [done EXCEPT !.log = r,
                 !.measurements = Append(@, <<code, meas>>),
                 !.available_measurements = IF meas["available"] # 0 THEN Append(@, <<code, meas>>) ELSE @]

RECURSIVE PollBanks(_, _, _, _)
RECURSIVE PollBank(_, _, _, _, _, _)
\* One iteration of update_all_measurements's loop, r being its read_meas
\* call: an exception leaving read_meas ends the loop with the two
\* attributes as they are.
PollBank(m, f, i, done, data, r) ==
    IF ~r.ok
    THEN [done EXCEPT !.log = r]
    ELSE PollBanks(m, f, i + 1, Stored(done, BankCodes[i], Tagged(r.meas, data), r))

\* The banks update_all_measurements polls after the first i - 1, in order.
PollBanks(m, f, i, done) ==
    IF i > Len(BankCodes) THEN done
    ELSE PollBank(m, f, i, done, MEAS_BANKS_DATA[BankCodes[i]],
             ReadMeas(m, f, MEAS_BANKS_DATA[BankCodes[i]].bank, MEAS_BANKS_DATA[BankCodes[i]].divisor, done.log))

\* The two attributes when update_all_measurements returns or raises: the
\* sort is its last statement.
Published(r) ==
    [ok |-> r.log.ok, exc |-> r.log.exc, requests |-> r.log.requests, ops |-> r.log.ops,
     ram |-> r.log.ram, written |-> r.log.written,
     measurements |-> Dict(r.measurements),
     available_measurements |-> IF r.log.ok THEN List(Sorted(r.available_measurements)) ELSE Dict(r.available_measurements)]

\* update_all_measurements(): ok / exc as above; measurements and
\* available_measurements: the two attributes when it returns or raises;
\* requests, ops: the read_ram calls and transport operations it issued;
\* ram, written: its last read_ram call.
UpdateAllMeasurements(m, f) == Published(PollBanks(m, f, 1, [log |-> NoLog, measurements |-> <<>>, available_measurements |-> <<>>]))

---------------------------------------------------------------------------
(* The commands (ElemacController.show_basic, show_all, check_alarms,      *)
(* store_chart_data).  main() runs one command per process.                *)

\* One send_alerts call as a function of what it reads: the configuration,
\* the timestamp files, the clock at the dedup check (t) and at the save
\* (t_save), and what the SMTP server does; prev: the call before it.
\* files, now: the files and the clock after the call; call: what it did.
SendAlertsCall(dedup_channel, cfg, fs, t, smtp, t_save, prev) ==
    LET entered == [NoCall EXCEPT !.made = TRUE, !.channel = dedup_channel,
                       !.opened = DedupFilesOpened(dedup_channel, cfg),
                       !.nth = (prev.nth + 1) % 2]
        e == SendEmailAlert(cfg, smtp)
        s == SendSmsAlert("brief")
        saved == SaveDedupSuppressionState(dedup_channel, fs, t_save)
    IN  IF CheckDedupSuppression(dedup_channel, cfg, fs, t)
        THEN [files |-> fs, now |-> t, call |-> [entered EXCEPT !.suppressed = TRUE]]
        ELSE IF e.email = "raised"
        THEN [files |-> fs, now |-> t_save, call |-> [entered EXCEPT !.email = e.email, !.smtp = e.smtp, !.raised = TRUE]]
        ELSE [files |-> saved.files, now |-> t_save,
              call |-> [entered EXCEPT !.email = e.email, !.smtp = e.smtp, !.sms = TRUE,
                                       !.sms_sent = s.sms_sent, !.wrote = saved.wrote]]

\* An alarm check_alarms found: the bank's code and "high" or "low".
Alarm(code, kind) == [channel |-> code, kind |-> kind]

\* The alarms of one record with the two comparisons not strict.
AlarmsOfInclusive(code, meas) ==
    (IF ~Less(meas["measured"], meas["alarm_high"]) THEN <<Alarm(code, "high")>> ELSE <<>>)
    \o (IF ~Greater(meas["measured"], meas["alarm_low"]) THEN <<Alarm(code, "low")>> ELSE <<>>)

\* The alarms check_alarms raises for one record, in order: the two
\* comparisons of the loop body.
AlarmsOf(code, meas) ==
    (IF Greater(meas["measured"], meas["alarm_high"]) THEN <<Alarm(code, "high")>> ELSE <<>>)
    \o (IF Less(meas["measured"], meas["alarm_low"]) THEN <<Alarm(code, "low")>> ELSE <<>>)

RECURSIVE AlarmsDue(_)
\* The alarms check_alarms raises for a list of (code, record) pairs.
AlarmsDue(items) == IF Len(items) = 0 THEN <<>> ELSE AlarmsOf(Head(items)[1], Head(items)[2]) \o AlarmsDue(Tail(items))

\* The send_alerts calls check_alarms makes for the alarms after the first
\* i - 1.  smtps[i]: what the SMTP server does on call i; ts[2 * i - 1]: the
\* clock as call i's dedup check reads it; ts[2 * i]: the clock as call i
\* reads it again to save its timestamp.  done: the files, the clock, the
\* last call and the calls of the run so far.
RECURSIVE RaiseAlarms(_, _, _, _, _, _)
RaiseAlarms(due, cfg, smtps, ts, i, done) ==
    IF i > Len(due) THEN done
    ELSE LET c == SendAlertsCall(due[i].channel, cfg, done.files, ts[2 * i - 1], smtps[i], ts[2 * i], done.call)
             logged == [files |-> c.files, now |-> c.now, call |-> c.call,
                        alerts |-> Append(done.alerts, [channel |-> due[i].channel, kind |-> due[i].kind, call |-> c.call])]
         IN  IF c.call.raised THEN logged ELSE RaiseAlarms(due, cfg, smtps, ts, i + 1, logged)

\* The instants the clock may show during a run that started at t: a run
\* does not outlast the hour.
InRun(t) == {x \in Times : x.hour = t.hour /\ DtLeq(t, x)}

\* n successive readings of the clock after t.
Clocks(t, n) == {ts \in [1..n -> InRun(t)] : \A i \in 1..n : DtLeq(IF i = 1 THEN t ELSE ts[i - 1], ts[i])}

\* What update_all_measurements leaves in the device's state.
Polled(u) ==
    /\ requests' = u.requests
    /\ trace' = trace \o u.ops
    /\ ram' = u.ram
    /\ written' = u.written
    /\ measurements' = u.measurements
    /\ available_measurements' = u.available_measurements
    /\ status' = IF u.ok THEN "exited" ELSE "crashed"

\* show_basic / show_all: poll, then print.
Show(name) ==
    /\ invoked = ""
    /\ invoked' = name
    /\ \E u \in {UpdateAllMeasurements(mem, fault)} : Polled(u)
    /\ UNCHANGED <<alertVars, mem, fault, alerts, chart, probe>>

ShowBasic == Show("show_basic")

ShowAll == Show("show_all")

\* check_alarms: poll, then raise the alarms of the available records.  An
\* exception leaving the poll ends the command before the loop.
CheckAlarms ==
    /\ invoked = ""
    /\ invoked' = "check_alarms"
    /\ \E u \in {UpdateAllMeasurements(mem, fault)} :
          /\ Polled(u)
          /\ \E due \in {IF u.ok THEN AlarmsDue(u.available_measurements.items) ELSE <<>>} :
                \E smtps \in [1..Len(due) -> {"ok", "error"}], ts \in Clocks(now, 2 * Len(due)) :
                   \E run \in {RaiseAlarms(due, config, smtps, ts, 1, [files |-> files, now |-> now, call |-> call, alerts |-> <<>>])} :
                      /\ alerts' = run.alerts
                      /\ files' = run.files
                      /\ now' = run.now
                      /\ call' = run.call
    /\ UNCHANGED <<config, mem, fault, chart, probe>>

\* test_alerts: one send_alerts call with dedup_channel=None; the controller
\* is not polled.
TestAlerts ==
    /\ invoked = ""
    /\ invoked' = "test_alerts"
    /\ \E smtp \in {"ok", "error"}, ts \in Clocks(now, 2) :
          \E c \in {SendAlertsCall(None, config, files, ts[1], smtp, ts[2], call)} :
             /\ call' = c.call
             /\ files' = c.files
             /\ now' = c.now
    /\ status' = "exited"
    /\ UNCHANGED <<config, ram, written, trace, mem, fault, requests, measurements, available_measurements, alerts, chart, probe>>

\* main with the command `show` and no sub-command: neither branch of the
\* dispatch is taken and the process ends.
ShowNothing ==
    /\ invoked = ""
    /\ invoked' = "show"
    /\ status' = "exited"
    /\ UNCHANGED <<alertVars, ram, written, trace, mem, fault, requests, measurements, available_measurements, alerts, chart, probe>>

\* str.replace('T', ' ') on a timestamp: isoformat(sep=' ').
SepSpace(s) == [i \in 1..Len(s) |-> IF s[i] = "T" THEN " " ELSE s[i]]

RECURSIVE Measured(_)
\* The (code, measured) pairs of a list of (code, record) pairs.
Measured(items) == IF Len(items) = 0 THEN <<>> ELSE <<<<Head(items)[1], Head(items)[2]["measured"]>>>> \o Measured(Tail(items))

\* store_chart_data: poll, then append one line with the time to the second
\* and the measured value of every available bank.  An exception leaving the
\* poll ends the command before the file is opened.
StoreChartData ==
    /\ invoked = ""
    /\ invoked' = "store_chart_data"
    /\ \E u \in {UpdateAllMeasurements(mem, fault)} :
          /\ Polled(u)
          /\ IF u.ok
             THEN \E t \in InRun(now) :
                     /\ now' = t
                     /\ chart' = Append(chart, [timestamp |-> SepSpace(IsoFormat([t EXCEPT !.microsecond = 0])),
                                                data |-> Measured(u.available_measurements.items)])
             ELSE UNCHANGED <<now, chart>>
    /\ UNCHANGED <<files, config, call, mem, fault, alerts, probe>>

\* The outcome of a row of calls: a call returning r, then the calls of rest.
Prepend(r, rest) == [results |-> <<r>> \o rest.results, files |-> rest.files]

RECURSIVE CheckRepeatedly(_, _, _, _, _)
RECURSIVE CheckAgain(_, _, _, _, _)
\* The check_dedup_suppression call c, then n - 1 more on the files it left.
CheckAgain(dedup_channel, cfg, t, n, c) == Prepend(c.result, CheckRepeatedly(dedup_channel, cfg, c.files, t, n - 1))

\* n successive check_dedup_suppression calls with the clock at t, each on
\* the files the one before left: what each returned, and the files after
\* the last.
CheckRepeatedly(dedup_channel, cfg, fs, t, n) ==
    IF n = 0 THEN [results |-> <<>>, files |-> fs]
    ELSE CheckAgain(dedup_channel, cfg, t, n, CheckDedupSuppressionRun(dedup_channel, cfg, fs, t))

\* No check_dedup_suppression call was made on its own.
NoProbe == [made |-> FALSE, channel |-> "", results |-> <<>>, touched |-> {}]

\* check_dedup_suppression(dedup_channel) called n times in a row, with no
\* save in between and the clock standing still.  touched: the timestamp
\* files created, modified or deleted by the calls.
ProbeDedup(dedup_channel, n) ==
    /\ dedup_channel \in ChannelArgs
    /\ n \in 1..MaxProbes
    /\ \E r \in {CheckRepeatedly(dedup_channel, config, files, now, n)} :
          /\ probe' = [made |-> TRUE, channel |-> dedup_channel, results |-> r.results,
                       touched |-> {k \in FileKeys : r.files[k] # files[k]}]
          /\ files' = r.files
    /\ UNCHANGED <<now, config, call, deviceVars, pollVars>>

\* The image of one bank in the controller's RAM: its 17 bytes, the
\* two-byte fields low byte first.
BankImage(flags, measured, alarm_high, alarm_low) ==
    <<flags, 1, measured % 256, measured \div 256, alarm_high % 256, alarm_high \div 256,
      270 % 256, 270 \div 256, 260 % 256, 260 \div 256, 5,
      220 % 256, 220 \div 256, 230 % 256, 230 \div 256, alarm_low % 256, alarm_low \div 256>>

\* The RAM holding the given images, bank 0 first.
MemOf(images) == [a \in MemAddrs |-> images[((a - MEAS_BASE) \div MEAS_STRUCT_SIZE) + 1][((a - MEAS_BASE) % MEAS_STRUCT_SIZE) + 1]]

\* A process that ran no command, on a controller whose RAM is blank.
PollIdle ==
    /\ mem = [a \in MemAddrs |-> 0]
    /\ fault = NoFault
    /\ requests = <<>>
    /\ measurements = Unset
    /\ available_measurements = Unset
    /\ alerts = <<>>
    /\ chart = <<>>
    /\ invoked = ""
    /\ probe = NoProbe

---------------------------------------------------------------------------
(* Specifications.                                                         *)

\* A stored timestamp that does not parse.
Garbage == <<"x">>

\* The timestamp files a run may start from: absent or unparsable.
InitFiles == {[k \in FileKeys |-> IF k = "" THEN NoFile ELSE f[k]] : f \in [Channels -> {NoFile, File(Garbage)}]}

DeviceIdle ==
    /\ ram = NoRam
    /\ written = <<>>
    /\ trace = <<>>
    /\ status = "running"

AlertIdle ==
    /\ now = Datetime(0, 0)
    /\ files = [k \in FileKeys |-> NoFile]
    /\ config = [has_hours |-> FALSE, hours |-> 0, keys |-> {}]
    /\ call = NoCall

\* The controller after construction: the configuration is loaded, the
\* timestamp files are whatever earlier runs left.
Init ==
    /\ now = Datetime(0, 0)
    /\ files \in InitFiles
    /\ config \in Configs
    /\ call = NoCall
    /\ DeviceIdle
    /\ PollIdle

\* Alerts raised by successive invocations (check_alarms on a bank's channel,
\* test_alerts on None), with time passing between them.
Next ==
    \/ \E c \in ChannelArgs : SendAlerts(c)
    \/ Tick

Spec == Init /\ [][Next]_vars

\* The sizes read_ram is called with; 0 and 5 violate its assertion.
Sizes == 0..5

\* One read_ram call on every address and size, the device answering "2c01".
EncodeCall ==
    /\ ~ram.made
    /\ \E a \in 0..MaxAddr, s \in Sizes : ReadRamCall(a, s, "ok", ReadGives(<<"2", "c", "0", "1", NUL>>))

\* One read_ram call on a measurement field, the device answering anything.
DecodeCall ==
    /\ ~ram.made
    /\ \E d \in Responses : ReadRamCall(MEAS_BASE + 2, 2, "ok", ReadGives(d))

InitCodec == AlertIdle /\ DeviceIdle /\ PollIdle

NextCodec == EncodeCall \/ DecodeCall

\* read_ram as a function of its arguments and of the device's response.
SpecCodec == InitCodec /\ [][NextCodec]_vars

\* What the transport may do on the reads of a poll.
SampleReads == {ReadFails, ReadGives(<<"2", "c", "0", "1", NUL>>), ReadGives(<<"0", "1", NUL, "g">>), ReadGives(<<"g", "1", NUL>>)}

\* The read_ram calls of one process, each on a live transport.
PollCall ==
    /\ Len(trace) < 2 * MaxCalls
    /\ \E a \in {MEAS_BASE, MEAS_BASE + 2, MEAS_BASE + MEAS_STRUCT_SIZE}, s \in {1, 2}, wr \in {"ok", "error"}, rd \in SampleReads :
          ReadRamCall(a, s, wr, rd)

InitTransport == AlertIdle /\ DeviceIdle /\ PollIdle

NextTransport == PollCall

\* Successive read_ram calls of one invocation of the program.
SpecTransport == InitTransport /\ [][NextTransport]_vars

\* The banks' flags bytes: any set of banks available, the other bits of
\* every flags byte clear or bit 1 set.
FlagMems == {MemOf([i \in 1..Len(BankCodes) |-> BankImage((IF BankCodes[i] \in avail THEN 1 ELSE 0) + hi, 250 + i, 280, 200)]) : avail \in SUBSET {BankCodes[i] : i \in 1..Len(BankCodes)}, hi \in {0, 2}}

\* What a bank may hold when alarms are checked: (flags, measured,
\* alarm_high, alarm_low), raw.
AlarmCases == {<<1, 250, 280, 200>>, <<1, 280, 280, 200>>, <<1, 200, 280, 200>>, <<1, 281, 280, 200>>, <<1, 199, 280, 200>>, <<1, 250, 240, 260>>, <<0, 281, 280, 200>>, <<2, 199, 280, 200>>, <<3, 281, 280, 200>>}

\* temp1 and ph1 hold any of the cases, temp2 is available and within its
\* thresholds, the other banks are not connected.
AlarmMem(a, b) ==
    MemOf([i \in 1..Len(BankCodes) |->
              IF BankCodes[i] = "temp1" THEN BankImage(a[1], a[2], a[3], a[4])
              ELSE IF BankCodes[i] = "ph1" THEN BankImage(b[1], b[2], b[3], b[4])
              ELSE IF BankCodes[i] = "temp2" THEN BankImage(1, 250, 280, 200)
              ELSE BankImage(0, 0, 0, 0)])

AlarmMems == {AlarmMem(a, b) : a, b \in AlarmCases}

\* Every round trip of a poll failing in every way.
Faults == {[at |-> k, kind |-> e] : k \in 1..(Len(BankCodes) * Len(FieldNames)), e \in {"write", "read", "garbled"}}

\* The alert configurations of the processes that check alarms.
PollConfigs == {[has_hours |-> FALSE, hours |-> 0, keys |-> EmailKeys]} \cup {[has_hours |-> TRUE, hours |-> h, keys |-> EmailKeys] : h \in {1, MaxWindow}}

\* The timestamp files an earlier run left: none, or temp1's, written one
\* microsecond after hour 0.
PollFiles == {[k \in FileKeys |-> NoFile], [k \in FileKeys |-> IF k = "temp1" THEN File(IsoFormat(Datetime(0, 1))) ELSE NoFile]}

\* A process about to run one command, at hour 1.
InitPoll ==
    /\ now = Datetime(1, 0)
    /\ call = NoCall
    /\ DeviceIdle
    /\ requests = <<>>
    /\ measurements = Unset
    /\ available_measurements = Unset
    /\ alerts = <<>>
    /\ chart = <<>>
    /\ invoked = ""
    /\ probe = NoProbe
    /\ \/ /\ mem \in FlagMems
          /\ fault = NoFault
          /\ config = [has_hours |-> FALSE, hours |-> 0, keys |-> {}]
          /\ files = [k \in FileKeys |-> NoFile]
       \/ /\ mem \in AlarmMems
          /\ fault = NoFault
          /\ config \in PollConfigs
          /\ files \in PollFiles
       \/ /\ mem = AlarmMem(<<1, 281, 280, 200>>, <<1, 199, 280, 200>>)
          /\ fault \in Faults
          /\ config = [has_hours |-> TRUE, hours |-> 1, keys |-> EmailKeys]
          /\ files = [k \in FileKeys |-> NoFile]

NextPoll == ShowBasic \/ ShowAll \/ ShowNothing \/ CheckAlarms \/ TestAlerts \/ StoreChartData

\* One invocation of the program on a live controller.
SpecPoll == InitPoll /\ [][NextPoll]_vars

\* A controller whose email options are not configured.
InitCheck == Init /\ config.keys = {}

NextCheck ==
    \/ \E c \in ChannelArgs, n \in {1, MaxProbes} : ProbeDedup(c, n)
    \/ SendAlerts("temp1")
    \/ Tick

\* The dedup check called on its own on every channel argument, between
\* alerts on temp1 and as time passes; the other channel's timestamp file is
\* the one an earlier run left.
SpecCheck == InitCheck /\ [][NextCheck]_vars

\* A controller with a suppression window and no email options, before its
\* first alert.
InitLive == Init /\ config.has_hours /\ config.keys = {} /\ files = [k \in FileKeys |-> NoFile]

NextLive ==
    \/ \E c \in Channels : SendAlerts(c)
    \/ Tick

\* The step is a send_alerts call on channel c, suppressed or not.
Calls(c) == call'.nth # call.nth /\ call'.channel = c

\* The step is a send_alerts call on channel c that reached the delivery
\* collaborators.
Delivers(c) == Calls(c) /\ ~call'.suppressed

\* check_dedup_suppression(c) would return True now.
Suppressed(c) == CheckDedupSuppression(c, config, files, now)

\* Any number of send_alerts calls on the channels, from any number of
\* successive invocations of the program, while time passes.  Nothing in the
\* program schedules the next call or the next invocation, so no call is
\* required to happen.
SpecLive == InitLive /\ [][NextLive]_vars

---------------------------------------------------------------------------
(* Properties of the alert deduplication.                                  *)

\* The timestamp text with the fraction always written: %Y-%m-%dT%H:%M:%S.%f
FullFormat(t) ==
    LeftPad(Dec(t.year), 4, "0") \o <<"-">> \o LeftPad(Dec(t.month), 2, "0") \o <<"-">>
    \o LeftPad(Dec(t.day), 2, "0") \o <<"T">> \o LeftPad(Dec(t.hour), 2, "0") \o <<":">>
    \o LeftPad(Dec(t.minute), 2, "0") \o <<":">> \o LeftPad(Dec(t.second), 2, "0")
    \o <<".">> \o LeftPad(Dec(t.microsecond), 6, "0")

\* Whole seconds from t to n, both of the model's day.
SecondsBetween(t, n) == (n.hour - t.hour) * 3600 + (n.minute - t.minute) * 60 + (n.second - t.second)

\* n - t < h hours, on the exact difference in microseconds.
Within(t, n, h) ==
    \/ SecondsBetween(t, n) < h * 3600
    \/ SecondsBetween(t, n) = h * 3600 /\ n.microsecond < t.microsecond

\* C1: check_dedup_suppression(channel) at `now` is true iff the channel is
\* non-empty, a window of H hours is configured, the channel's stored timestamp
\* exists and parses to an instant t, and now - t < H strictly; false otherwise.
C1_SuppressedIffWithinWindow ==
    \A c \in ChannelArgs :
        CheckDedupSuppression(c, config, files, now)
            <=> /\ c # None /\ c # ""
                /\ config.has_hours
                /\ files[c].exists
                /\ \E t \in Times : files[c].text = FullFormat(t) /\ Within(t, now, config.hours)

\* C1 witness: a stored timestamp lies exactly H hours before now (not suppressed).
C1_Witness ==
    \E c \in Channels :
        /\ config.has_hours /\ files[c].exists
        /\ \E t \in Times :
              /\ files[c].text = FullFormat(t)
              /\ SecondsBetween(t, now) = config.hours * 3600
              /\ now.microsecond = t.microsecond
        /\ ~CheckDedupSuppression(c, config, files, now)

\* C2: a send_alerts call on a channel for which check_dedup_suppression is
\* true invokes neither send_email_alert nor send_sms_alert and leaves the
\* stored timestamps unchanged; a stored timestamp changes only in a
\* send_alerts call that was not suppressed.
C2_SuppressedCallDoesNothing ==
    [][(call' # call \/ files' # files)
          => /\ call'.made
             /\ CheckDedupSuppression(call'.channel, config, files, now)
                   => /\ call'.suppressed
                      /\ call'.email = "not_invoked" /\ ~call'.smtp
                      /\ ~call'.sms /\ ~call'.sms_sent
                      /\ call'.wrote = {}
                      /\ files' = files
             /\ files' # files
                   => /\ ~call'.suppressed
                      /\ ~CheckDedupSuppression(call'.channel, config, files, now)]_vars

\* C2 witness: a send_alerts call was suppressed.
C2_Witness == call.made /\ call.suppressed /\ call.channel \in Channels

\* C3: the timestamp text save_dedup_suppression_state writes for an instant
\* parses back, in check_dedup_suppression, to exactly that instant, for every
\* microsecond component including 0; so the alert just recorded is seen as a
\* prior alert (suppressing, with a window configured) by a check at that instant.
C3_TimestampRoundTrips ==
    \A c \in call.wrote :
        \E t \in Times :
            /\ files[c].text = IsoFormat(t)
            /\ Strptime(Readline(files[c].text)) = [ok |-> TRUE, dt |-> t]
            /\ config.has_hours => CheckDedupSuppression(c, config, files, t)

\* C4: a send_alerts call with dedup_channel None or empty is never suppressed,
\* invokes both delivery collaborators and neither reads nor writes any
\* timestamp file, whatever window is configured and whatever is stored.
C4_EmptyChannelDisablesDedup ==
    (call.made /\ Falsy(call.channel))
        => /\ ~call.suppressed
           /\ call.email # "not_invoked" /\ call.sms
           /\ call.opened = {} /\ call.wrote = {}

\* C4 witness: a test alert went out while a window is configured and another
\* channel is inside its suppression window.
C4_Witness ==
    /\ call.made /\ Falsy(call.channel) /\ call.sms
    /\ config.has_hours
    /\ \E c \in Channels : CheckDedupSuppression(c, config, files, now)

\* C5: a stored timestamp is updated only in a send_alerts call that actually
\* attempted a delivery through email (SMTP contacted) or SMS.
C5_SavedOnlyAfterDeliveryAttempt == call.wrote # {} => (call.smtp \/ call.sms_sent)

\* C6: when the SMTP delivery fails in a send_alerts call, the failure is
\* caught: send_sms_alert is still invoked, the timestamp of a non-empty
\* channel is still saved, and no exception leaves send_alerts.
C6_EmailFailureIsContained ==
    (call.made /\ call.smtp /\ call.email # "sent")
        => /\ call.email = "failed"
           /\ call.sms
           /\ ~call.raised
           /\ ~Falsy(call.channel) => (call.channel \in call.wrote /\ files[call.channel].exists)

\* C6 witness: the email delivery of an alert on a bank's channel failed.
C6_Witness == call.made /\ call.email = "failed" /\ call.channel \in Channels /\ call.sms

---------------------------------------------------------------------------
(* Properties of the memory-read protocol.                                 *)

\* C7: for address >= 0 and size in 1..4 the request string is 'r', the digit
\* size-1, and the address in lowercase hexadecimal left-padded with '0' to at
\* least 3 digits, never truncated; the bytes written are that string followed
\* by one null byte.
C7_RequestIsZeroPadded ==
    (ram.made /\ ram.size \in 1..4 /\ ram.address >= 0)
        => /\ ram.cmd = <<"r", DIGITS[ram.size]>> \o LeftPad(Hex(ram.address), 3, "0")
           /\ written = ram.cmd \o <<NUL>>

\* The index of the first null byte of data, or Len(data) + 1 when there is none.
FirstNul(data) == CHOOSE i \in 1..(Len(data) + 1) : (i = Len(data) + 1 \/ data[i] = NUL) /\ \A j \in 1..(i - 1) : data[j] # NUL

\* The payload of a response: the bytes before its first null byte.
Payload(data) == SubSeq(data, 1, FirstNul(data) - 1)

\* A positive even number of hex characters.
WellFormed(p) == Len(p) > 0 /\ Len(p) % 2 = 0 /\ \A i \in 1..Len(p) : IsHexDigit(p[i])

RECURSIVE Pow256(_)
Pow256(k) == IF k = 0 THEN 1 ELSE 256 * Pow256(k - 1)

RECURSIVE LittleEndianSum(_, _)
\* The sum over the byte groups g_i of p, from group i on, of value(g_i) * 256^i.
LittleEndianSum(p, i) ==
    IF 2 * i >= Len(p) THEN 0
    ELSE (HexDigitVal(p[2 * i + 1]) * 16 + HexDigitVal(p[2 * i + 2])) * Pow256(i) + LittleEndianSum(p, i + 1)

\* The read_ram call reached the decoding of a response.
Answered == ram.made /\ ram.size \in 1..4 /\ ram.wr = "ok" /\ ram.rd.ok

\* C8: when the payload (the bytes before the first null byte) is a positive
\* even number of hex characters, read_ram returns the little-endian value of
\* its byte groups ("2c01" gives 300, "0a14" gives 5130); the bytes after the
\* first null byte do not matter.
C8_LittleEndianDecode ==
    (Answered /\ WellFormed(Payload(ram.rd.data)))
        => /\ ram.ok
           /\ ram.value = LittleEndianSum(Payload(ram.rd.data), 0)
           /\ Payload(ram.rd.data) = <<"2", "c", "0", "1">> => ram.value = 300
           /\ Payload(ram.rd.data) = <<"0", "a", "1", "4">> => ram.value = 5130

\* C8 witness: the response "0a" NUL "c" was decoded to 10.
C8_Witness == Answered /\ ram.rd.data = <<"0", "a", NUL, "c">> /\ ram.ok /\ ram.value = 10

\* C9: read_ram fails, returning no integer, for every payload that is empty,
\* of odd length, or holds a non-hex character.
C9_MalformedPayloadFails ==
    (Answered /\ ~WellFormed(Payload(ram.rd.data))) => ~ram.ok

\* C10: every read_ram call issues exactly one write and, only when the write
\* succeeded, exactly one read after it, with no retry; a failed write or read
\* leaves the call as an exception; the trace of transport operations
\* alternates write, read, write, read with at most one request in flight.
C10_OneWriteThenOneRead ==
    /\ [](/\ \A i \in 1..Len(trace) : trace[i].op = IF i % 2 = 1 THEN "write" ELSE "read"
          /\ \A i \in 1..(Len(trace) - 1) : trace[i].ok
          /\ status = "running" => Len(trace) % 2 = 0
          /\ (ram.made /\ (ram.wr # "ok" \/ ~ram.rd.ok))
                => (~ram.ok /\ ram.exc = "USBError" /\ status = "crashed"))
    /\ [][IF ram'.wr = "ok"
          THEN trace' = trace \o <<Op("write", TRUE), Op("read", ram'.rd.ok)>>
          ELSE trace' = trace \o <<Op("write", FALSE)>>]_vars

\* C10 witness: after one complete round-trip the read of the next call timed out.
C10_Witness == Len(trace) = 4 /\ trace[3].ok /\ ~trace[4].ok /\ status = "crashed"

---------------------------------------------------------------------------
(* Properties of the poll cycle and of the commands.                       *)

\* The command's poll returned and the command ran to its end.
Completed == invoked \in {"show_basic", "show_all", "check_alarms", "store_chart_data"} /\ status = "exited"

\* The command's poll raised.
Aborted == invoked # "" /\ status = "crashed"

RECURSIVE RawAt(_, _, _)
\* The number the controller's RAM holds in the `size` bytes at `address`,
\* low byte first.
RawAt(m, address, size) == IF size = 0 THEN 0 ELSE m[address] + 256 * RawAt(m, address + 1, size - 1)

\* The indices of the entries of a list of (code, record) pairs with this code.
Entries(items, code) == {i \in 1..Len(items) : items[i][1] = code}

\* The record stored under a code.
RecordOf(items, code) == items[CHOOSE i \in Entries(items, code) : TRUE][2]

\* The requests of the log for `size` bytes at `address`.
RequestsFor(address, size) == {k \in 1..Len(requests) : requests[k].address = address /\ requests[k].size = size}

\* The value a bank's field has in the controller's RAM, as read_meas
\* stores it.
Live(code, name) ==
    LET raw == RawAt(mem, 1864 + MEAS_BANKS_DATA[code].bank * 17 + MEAS_FIELD_DATA[name].offset, MEAS_FIELD_DATA[name].size)
    IN  IF MEAS_FIELD_DATA[name].divisive THEN [num |-> raw, den |-> MEAS_BANKS_DATA[code].divisor] ELSE raw

\* C11: a completed update_all_measurements issued exactly 80 round trips,
\* one write and one read each: for each of the 8 banks and each of the 10
\* fields exactly one read_ram at 1864 + bank * 17 + offset with the field's
\* own size of 1 or 2 bytes; and every field of every record holds what the
\* controller's RAM holds now, read in this cycle.
C11_OneReadPerBankAndField ==
    Completed =>
        /\ Len(requests) = 80
        /\ Len(trace) = 160
        /\ \A k \in 1..80 : trace[2 * k - 1] = Op("write", TRUE) /\ trace[2 * k] = Op("read", TRUE)
        /\ \A b \in 0..7 : \E i \in 1..8 : MEAS_BANKS_DATA[BankCodes[i]].bank = b
        /\ Len(FieldNames) = 10
        /\ \A i \in 1..8, j \in 1..10 :
              LET code == BankCodes[i]
                  data == MEAS_FIELD_DATA[FieldNames[j]]
              IN  /\ data.size \in {1, 2}
                  /\ Cardinality(RequestsFor(1864 + MEAS_BANKS_DATA[code].bank * 17 + data.offset, data.size)) = 1
                  /\ Cardinality(Entries(measurements.items, code)) = 1
                  /\ RecordOf(measurements.items, code)[FieldNames[j]] = Live(code, FieldNames[j])

\* A check_alarms run polled the 80 fields and read temp1 at 28.1 and ph1 at
\* 1.99.
C11_Witness ==
    /\ Completed
    /\ invoked = "check_alarms"
    /\ Len(requests) = 80
    /\ RecordOf(measurements.items, "temp1")["measured"] = [num |-> 281, den |-> 10]
    /\ RecordOf(measurements.items, "ph1")["measured"] = [num |-> 199, den |-> 100]

\* The bank codes in ascending lexicographic order.
Ascending == <<"humid", "ph1", "ph2", "redox", "temp1", "temp2", "temp3", "temp4">>

\* The place of a code in the ascending order.
Rank(code) == CHOOSE i \in 1..8 : Ascending[i] = code

\* Bit 0 of the flags byte the controller's RAM holds for a bank.
FlagBit0(code) == mem[1864 + MEAS_BANKS_DATA[code].bank * 17] % 2

\* C12: after a completed update_all_measurements, available_measurements is
\* a list holding exactly the bank codes whose flags byte has bit 0 set
\* (0x01 and 0x03, not 0x00 or 0x02), each once and with the record stored
\* under measurements, in ascending lexicographic order of the codes; with
\* 3 of the 8 banks unavailable it has exactly 5 entries.
C12_AvailableIsFilteredAndSorted ==
    Completed =>
        LET items == available_measurements.items
            clear == {i \in 1..8 : FlagBit0(BankCodes[i]) = 0}
        IN  /\ available_measurements.kind = "list"
            /\ \A i \in 1..8 : Cardinality(Entries(items, BankCodes[i])) = FlagBit0(BankCodes[i])
            /\ \A k \in 1..Len(items) : items[k][2] = RecordOf(measurements.items, items[k][1])
            /\ \A k \in 1..Len(items), l \in 1..Len(items) : k < l => Rank(items[k][1]) < Rank(items[l][1])
            /\ Len(items) = 8 - Cardinality(clear)
            /\ Cardinality(clear) = 3 => Len(items) = 5

\* A poll of a controller with five banks available, temp1 with flags 0x03
\* among them and temp2 with flags 0x02 not.
C12_Witness ==
    /\ Completed
    /\ Len(available_measurements.items) = 5
    /\ mem[1864] = 3
    /\ mem[1864 + 17] = 2
    /\ Cardinality(Entries(available_measurements.items, "temp1")) = 1
    /\ Cardinality(Entries(available_measurements.items, "humid")) = 1
    /\ Cardinality(Entries(available_measurements.items, "temp2")) = 0

\* The raw number the controller's RAM holds for a two-byte field of a bank.
Raw(code, name) == RawAt(mem, 1864 + MEAS_BANKS_DATA[code].bank * 17 + MEAS_FIELD_DATA[name].offset, 2)

\* The send_alerts calls of the run for a bank's alarm of one kind.
AlertsFor(code, kind) == {k \in 1..Len(alerts) : alerts[k].channel = code /\ alerts[k].kind = kind}

\* The bank is available and its measured value is above alarm_high.
TooHigh(code) == FlagBit0(code) = 1 /\ Raw(code, "measured") > Raw(code, "alarm_high")

\* The bank is available and its measured value is below alarm_low.
TooLow(code) == FlagBit0(code) = 1 /\ Raw(code, "measured") < Raw(code, "alarm_low")

\* C13: a check_alarms run calls send_alerts with the high alarm on the
\* bank's own channel once for every available bank measured strictly
\* above alarm_high, with the low alarm once for every available bank
\* measured strictly below alarm_low, and makes no other send_alerts call:
\* none for an unavailable bank, none for a value at or between the
\* thresholds.
C13_AlarmsExactlyWhenOutside ==
    (Completed /\ invoked = "check_alarms") =>
        /\ \A i \in 1..8 :
              /\ Cardinality(AlertsFor(BankCodes[i], "high")) = (IF TooHigh(BankCodes[i]) THEN 1 ELSE 0)
              /\ Cardinality(AlertsFor(BankCodes[i], "low")) = (IF TooLow(BankCodes[i]) THEN 1 ELSE 0)
        /\ \A k \in 1..Len(alerts) :
              /\ alerts[k].kind \in {"high", "low"}
              /\ alerts[k].call.made
              /\ alerts[k].call.channel = alerts[k].channel
              /\ \E i \in 1..8 : BankCodes[i] = alerts[k].channel

\* A run that found temp1 (flags 0x03) above alarm_high and ph1 exactly at
\* alarm_low: one call, the high alarm on temp1.
C13_Witness ==
    /\ Completed
    /\ invoked = "check_alarms"
    /\ mem[1864] = 3
    /\ Raw("temp1", "measured") = 281
    /\ Raw("temp1", "alarm_high") = 280
    /\ Raw("ph1", "measured") = 200
    /\ Raw("ph1", "alarm_low") = 200
    /\ Len(alerts) = 1
    /\ alerts[1].channel = "temp1"
    /\ alerts[1].kind = "high"

\* C14: check_dedup_suppression called any number of times in a row, with
\* no save in between and at the same instant, returns the same result
\* every time, the result of a single call, and creates, modifies or
\* deletes no channel's timestamp file.
C14_CheckIsIdempotentAndReadOnly ==
    probe.made =>
        /\ \A i \in 1..Len(probe.results) : probe.results[i] = probe.results[1]
        /\ probe.touched = {}

\* Three calls in a row on a channel whose alert is being suppressed: each
\* returned True.
C14_Witness ==
    /\ probe.made
    /\ probe.channel = "temp1"
    /\ probe.results = <<TRUE, TRUE, TRUE>>
    /\ files["temp1"].exists

\* C15: when a read_ram of the poll fails, the cycle aborts there: no later
\* round trip is issued, no alert is raised, no chart line is written, and
\* measurements and available_measurements hold no record read in the
\* aborted cycle.
C15_AbortPublishesNothing ==
    Aborted =>
        /\ Len(requests) = fault.at
        /\ alerts = <<>>
        /\ call = NoCall
        /\ chart = <<>>
        /\ measurements.items = <<>>
        /\ available_measurements.items = <<>>

\* What does hold when a read_ram of the poll fails: the failed round trip
\* is the last, no alert is raised, no timestamp is saved and no chart line
\* is written.
AbortStopsTheCommand ==
    Aborted =>
        /\ Len(requests) = fault.at
        /\ ~ram.ok
        /\ alerts = <<>>
        /\ call = NoCall
        /\ \A k \in FileKeys : ~files[k].exists
        /\ chart = <<>>

\* The records of the banks read before the failure stay in the two
\* attributes, available_measurements as the unsorted dict.
AbortLeavesRecords ==
    /\ Aborted
    /\ fault.at = 11
    /\ Len(measurements.items) = 1
    /\ measurements.items[1][1] = "temp1"
    /\ available_measurements = Dict(measurements.items)

\* The send_alerts call of the run for a bank's alarm of one kind.
AlertFor(code, kind) == alerts[CHOOSE k \in AlertsFor(code, kind) : TRUE].call

\* C16: when an available bank is measured both above alarm_high and below
\* alarm_low, one check_alarms run raises the two alarms on the bank's
\* channel, the high one first, and the low one is delivered whenever the
\* high one was: it is not held back by the alert raised just before it,
\* with a suppression window configured or not.
C16_LowAlarmIndependentOfHigh ==
    (Completed /\ invoked = "check_alarms") =>
        \A i \in 1..8 :
            (TooHigh(BankCodes[i]) /\ TooLow(BankCodes[i])) =>
                /\ \E k \in AlertsFor(BankCodes[i], "high") : \E l \in AlertsFor(BankCodes[i], "low") : l = k + 1
                /\ ~AlertFor(BankCodes[i], "high").suppressed => ~AlertFor(BankCodes[i], "low").suppressed

\* The run that delivers the high alarm of temp1 and then suppresses its low
\* alarm, the timestamp of the first being inside the window.
LowAlarmSuppressedByHigh ==
    /\ Completed
    /\ invoked = "check_alarms"
    /\ TooHigh("temp1")
    /\ TooLow("temp1")
    /\ config.has_hours
    /\ ~AlertFor("temp1", "high").suppressed
    /\ AlertFor("temp1", "high").wrote = {"temp1"}
    /\ AlertFor("temp1", "low").suppressed

\* Without a window the two alarms are both delivered.
BothDeliveredWithoutWindow ==
    (Completed /\ invoked = "check_alarms" /\ ~config.has_hours) =>
        \A k \in 1..Len(alerts) : ~alerts[k].call.suppressed

---------------------------------------------------------------------------
(* Properties of the alert deduplication over successive calls.            *)

\* The last alert delivered on channel c was recorded at instant t.
RecordedAt(c, t) == files[c] = File(IsoFormat(t))

\* C17: with a window of H > 0 hours configured, an alert is delivered on a
\* non-empty channel only when at least H hours have passed since the
\* previous delivered alert on that channel was recorded.
C17_DeliveriesAreSpacedByWindow ==
    [][\A c \in Channels, t \in Times :
          (config.has_hours /\ RecordedAt(c, t) /\ Delivers(c)) => ~Within(t, now, config.hours)]_vars

\* The spacing does hold after every alert recorded at a microsecond other
\* than 0.
SpacedWhenFractionWritten ==
    [][\A c \in Channels, t \in Times :
          (config.has_hours /\ t.microsecond # 0 /\ RecordedAt(c, t) /\ Delivers(c)) => ~Within(t, now, config.hours)]_vars

\* The window opened by the alert recorded at t ends within the model's day.
Expires(t) == \E n \in Times : ~Within(t, n, config.hours)

\* Alerts on channel c are being suppressed because of an alert recorded
\* in hour h, whose window ends within the model's day.
Suppressing(c, h) == Suppressed(c) /\ \E us \in Micros : RecordedAt(c, Datetime(h, us)) /\ Expires(Datetime(h, us))

\* An alert was just delivered on channel c and recorded, the window of the
\* alert recorded in hour h having ended.
DeliveredAfter(c, h) ==
    /\ call.made
    /\ call.channel = c
    /\ ~call.suppressed
    /\ c \in call.wrote
    /\ RecordedAt(c, now)
    /\ now.hour >= h + config.hours

\* The last instant of the model's day.
LastInstant == Datetime(MaxHour, 999999)

\* The clock advances to the end of the model's day.
ClockAdvances == <>[](now = LastInstant)

\* send_alerts is called on channel c again and again, suppressed or not.
CalledAgainAndAgain(c) == []<><<Calls(c)>>_vars

\* C18: suppression is never permanent.  In every behaviour in which
\* send_alerts is called on a channel again and again while the clock
\* advances, every suppression of the channel is followed by a delivered
\* alert on it once the window has ended: the suppressed calls in between
\* do not move the stored timestamp.
C18_SuppressionEnds ==
    \A c \in Channels, h \in 0..MaxHour :
        (CalledAgainAndAgain(c) /\ ClockAdvances) => (Suppressing(c, h) ~> DeliveredAfter(c, h))

\* An alert on temp1 was just suppressed because of one recorded at hour 0,
\* whose window ends within the day.
C18_Witness ==
    /\ call.made
    /\ call.channel = "temp1"
    /\ call.suppressed
    /\ Suppressing("temp1", 0)
    /\ RecordedAt("temp1", Datetime(0, 1))
    /\ now.hour >= 1

\* The step is a send_alerts call.
SendAlertsStep == call'.made /\ (call' # call \/ files' # files)

\* What check_dedup_suppression(b) returns at instant n, for the files given.
CheckAt(b, fs, n) == CheckDedupSuppression(b, config, fs, n)

\* C19: a send_alerts call on one channel, delivered or suppressed, leaves the
\* timestamp file of every other channel as it was, and leaves unchanged what
\* check_dedup_suppression returns for every other channel at every instant.
C19_ChannelsAreIsolated ==
    [][SendAlertsStep =>
          \A b \in Channels \ {call'.channel} :
             /\ files'[b] = files[b]
             /\ \A n \in Times : CheckAt(b, files', n) = CheckAt(b, files, n)]_vars

\* An alert on ph1 was delivered and recorded while temp1 is inside its own
\* window, under a timestamp of its own.
C19_Witness ==
    /\ call.made /\ call.channel = "ph1" /\ ~call.suppressed /\ "ph1" \in call.wrote
    /\ files["temp1"].exists /\ files["temp1"] # files["ph1"]
    /\ CheckDedupSuppression("temp1", config, files, now)

\* The bytes of a bank structure a field occupies: [offset, offset + size).
FieldBytes(name) == MEAS_FIELD_DATA[name].offset..(MEAS_FIELD_DATA[name].offset + MEAS_FIELD_DATA[name].size - 1)

\* The addresses the structure of a bank occupies.
BankRegion(code) ==
    (MEAS_BASE + MEAS_BANKS_DATA[code].bank * MEAS_STRUCT_SIZE)..(MEAS_BASE + MEAS_BANKS_DATA[code].bank * MEAS_STRUCT_SIZE + MEAS_STRUCT_SIZE - 1)

\* The (bank, field) pairs the byte at address a belongs to.
OwnersOf(a) ==
    {p \in (DOMAIN MEAS_BANKS_DATA) \X (DOMAIN MEAS_FIELD_DATA) :
        a \in BankRegion(p[1]) /\ a - MEAS_BASE - MEAS_BANKS_DATA[p[1]].bank * MEAS_STRUCT_SIZE \in FieldBytes(p[2])}

\* The fields tile the 17-byte structure and the banks tile 1864..1999.
LayoutConsistent ==
    /\ Cardinality(DOMAIN MEAS_FIELD_DATA) = 10
    /\ \A a, b \in DOMAIN MEAS_FIELD_DATA : a # b => FieldBytes(a) \cap FieldBytes(b) = {}
    /\ UNION {FieldBytes(a) : a \in DOMAIN MEAS_FIELD_DATA} = 0..16
    /\ MEAS_STRUCT_SIZE = 17
    /\ Cardinality(DOMAIN MEAS_BANKS_DATA) = 8
    /\ \A a, b \in DOMAIN MEAS_BANKS_DATA : a # b => BankRegion(a) \cap BankRegion(b) = {}
    /\ UNION {BankRegion(a) : a \in DOMAIN MEAS_BANKS_DATA} = 1864..1999

\* The request is 'r', a digit 0 or 1, and three hexadecimal digits.
FiveCharacters(cmd) ==
    /\ Len(cmd) = 5
    /\ cmd[1] = "r"
    /\ cmd[2] \in {"0", "1"}
    /\ \A i \in 3..5 : \E d \in 1..16 : cmd[i] = HEXDIGITS[d]

\* C20: the fields of MEAS_FIELD_DATA are pairwise disjoint and cover bytes
\* 0..16 of the bank structure, the 8 banks occupy disjoint consecutive
\* regions, every byte a poll reads lies in 1864..1999 and belongs to exactly
\* one (bank, field) pair, and every request of a poll is exactly 5
\* characters: 'r', a digit 0 or 1, and 3 hexadecimal digits without padding.
C20_LayoutConsistentAndRequestsFiveChars ==
    /\ LayoutConsistent
    /\ \A k \in 1..Len(requests) :
          /\ \A a \in requests[k].address..(requests[k].address + requests[k].size - 1) :
                /\ a \in 1864..1999
                /\ Cardinality(OwnersOf(a)) = 1
          /\ FiveCharacters(requests[k].cmd)

\* A poll that read every field of every bank, from 'r0748' to 'r17ce'.
C20_Witness ==
    /\ Completed
    /\ Len(requests) = 80
    /\ requests[1].cmd = <<"r", "0", "7", "4", "8">>
    /\ requests[80].cmd = <<"r", "1", "7", "c", "e">>
    /\ requests[80].address + requests[80].size - 1 = 1999

====
